---------------------------- MODULE Spec2Model ----------------------------
(***************************************************************************)
(* Batch Wildcard Prompt Generator v2.0 ("Funk Wildcards.js").             *)
(*                                                                         *)
(* A string is a sequence of one-character strings.  The JavaScript value  *)
(* undefined is the value Undefined, which is no string.                   *)
(***************************************************************************)
EXTENDS Integers, Sequences, FiniteSets, TLC

(***************************************************************************)
(* Constants of the script                                                 *)
(***************************************************************************)
MODE_RANDOM == 0
MODE_SEQUENTIAL == 1
MODE_CARTESIAN == 2
MODE_TEST == 3
MAX_BATCH_COUNT == 250
PREVIEW_COUNT == 3
\* the upper end of the 'Batch count' slider of v1.7
SLIDER_MAX_V17 == 100
\* a Number is an IEEE 754 double: 53 significant bits, finite below 2^1024
SIGNIFICAND_BITS == 53
MAX_BINARY_EXPONENT == 1024

(***************************************************************************)
(* Bounds of the model                                                     *)
(***************************************************************************)
\* requested batch counts -1 .. MaxRequested are explored, besides the large ones
MaxRequested == 5
\* option lists handed to the enumerators have at most MaxGroups groups ...
MaxGroups == 3
\* ... of at most MaxOpts options each
MaxOpts == 2
\* limits 0 .. MaxLimit are handed to the bounded enumerator
MaxLimit == 9
\* group bodies of at most MaxBodyLen characters are handed to splitOptions
MaxBodyLen == 5
\* templates built of at most MaxTplGroups groups are handed to the parser ...
MaxTplGroups == 2
\* ... with at most MaxValues values to substitute
MaxValues == 2
\* Safe-Mode v3: progress lines counted, and clock ticks per logging interval
MaxLines == 5
TicksPerInterval == 4

(***************************************************************************)
(* JavaScript helpers                                                      *)
(***************************************************************************)
EmptyStr == << >>
Undefined == << "#undefined" >>

Min(a, b) == IF a < b THEN a ELSE b

\* value || '' : undefined and '' are falsy
OrEmpty(v) == IF v = Undefined \/ v = EmptyStr THEN EmptyStr ELSE v

\* array[index] with a 0-based index; NaN (index -1 here) and any index out of
\* range give undefined
At(arr, idx) == IF idx >= 0 /\ idx < Len(arr) THEN arr[idx + 1] ELSE Undefined

\* i % n of JavaScript for i >= 0; n = 0 gives NaN, represented by -1
JsMod(i, n) == IF n = 0 THEN -1 ELSE i % n

RECURSIVE TrimLeft(_)
TrimLeft(s) == IF s # << >> /\ Head(s) = " " THEN TrimLeft(Tail(s)) ELSE s

RECURSIVE TrimRight(_)
TrimRight(s) ==
  IF s # << >> /\ s[Len(s)] = " " THEN TrimRight(SubSeq(s, 1, Len(s) - 1)) ELSE s

\* String.prototype.trim
Trim(s) == TrimRight(TrimLeft(s))

\* String.prototype.includes for a one-character needle
Includes(s, c) == \E k \in 1..Len(s) : s[k] = c

RECURSIVE SplitPipe(_, _)
\* groupText.split('|'), cur being the piece under construction
SplitPipe(s, cur) ==
  IF s = << >> THEN << cur >>
  ELSE IF Head(s) = "|" THEN << cur >> \o SplitPipe(Tail(s), << >>)
  ELSE SplitPipe(Tail(s), Append(cur, Head(s)))

RECURSIVE JoinPipe(_)
\* pieces.join('|'): '' for no piece
JoinPipe(pieces) ==
  IF pieces = << >> THEN EmptyStr
  ELSE IF Len(pieces) = 1 THEN pieces[1]
  ELSE pieces[1] \o << "|" >> \o JoinPipe(Tail(pieces))

RECURSIVE Product(_)
\* sizes.reduce((total, n) => total * n, 1) while the total is an integer kept
\* exactly
Product(sizes) == IF sizes = << >> THEN 1 ELSE Head(sizes) * Product(Tail(sizes))

(***************************************************************************)
(* Numbers.  A count of combinations is a Number whose value can leave the  *)
(* range of the integers kept exactly: kind "int" holds an integer below    *)
(* 2^31 in int; kind "big" holds (hi * 2^27 + lo) * 2^exp, a significand of *)
(* exactly 53 binary digits in two limbs of 26 and 27 digits; kinds "inf"   *)
(* and "nan" are Infinity and NaN.                                          *)
(***************************************************************************)
JsNumber(n) == [kind |-> "int", int |-> n, hi |-> 0, lo |-> 0, exp |-> 0]
JsInfinity == [kind |-> "inf", int |-> 0, hi |-> 0, lo |-> 0, exp |-> 0]
JsNaN == [kind |-> "nan", int |-> 0, hi |-> 0, lo |-> 0, exp |-> 0]

\* the low limb counts up to Limb - 1, the high limb of a 53-digit significand
\* from HiMin to 2 * HiMin - 1
Limb == 2^(SIGNIFICAND_BITS - 26)
HiMin == 2^(SIGNIFICAND_BITS - 28)

\* the number of binary digits of x, 1 <= x < 2^31
BitLength(x) == CHOOSE len \in 1..31 : x \div 2^(len - 1) = 1

JsBig(hi, lo, exp) ==
  IF exp + SIGNIFICAND_BITS > MAX_BINARY_EXPONENT THEN JsInfinity
  ELSE [kind |-> "big", int |-> 0, hi |-> hi, lo |-> lo, exp |-> exp]

\* the integer x, 1 <= x < 2^31, with a significand of 53 digits
Widen(x) ==
  LET shift == SIGNIFICAND_BITS - BitLength(x)
      below == SIGNIFICAND_BITS - 26 - shift
  IN  IF below <= 0
      THEN [hi |-> x * 2^(0 - below), lo |-> 0, exp |-> 0 - shift]
      ELSE [hi |-> x \div 2^below, lo |-> (x % 2^below) * 2^shift, exp |-> 0 - shift]

\* the double nearest to m * n for a significand m and 1 <= n <= 31: the exact
\* product has up to 5 digits more than 53, which are dropped, rounding to
\* nearest, ties to even
TimesBig(m, n) ==
  LET low     == m.lo * n
      lo2     == low % Limb
      hi2     == m.hi * n + low \div Limb
      drop    == CHOOSE d \in 0..5 : hi2 \div (HiMin * 2^d) = 1
      rest    == lo2 % 2^drop
      hi3     == hi2 \div 2^drop
      lo3     == (hi2 % 2^drop) * (Limb \div 2^drop) + lo2 \div 2^drop
      roundUp == /\ drop > 0
                 /\ \/ rest > 2^(drop - 1)
                    \/ rest = 2^(drop - 1) /\ lo3 % 2 = 1
      lo4     == IF roundUp THEN lo3 + 1 ELSE lo3
      hi4     == IF lo4 = Limb THEN hi3 + 1 ELSE hi3
  IN  IF hi4 = 2 * HiMin THEN JsBig(HiMin, 0, m.exp + drop + 1)
      ELSE JsBig(hi4, lo4 % Limb, m.exp + drop)

\* total * opts.length, n being a length
JsTimes(a, n) ==
  CASE a.kind = "nan" -> JsNaN
    [] a.kind = "inf" -> IF n = 0 THEN JsNaN ELSE JsInfinity
    [] a.kind = "big" -> IF n = 0 THEN JsNumber(0) ELSE TimesBig(a, n)
    [] a.kind = "int" -> IF n = 0 \/ a.int <= 2147483647 \div n
                         THEN JsNumber(a.int * n)
                         ELSE TimesBig(Widen(a.int), n)

\* sizes.reduce((total, n) => total * n, 1) in Number arithmetic
\* (reduce[a] is the total after the callbacks of positions a.from to a.to,
\* begun with a.total; the positions are split in halves to keep the evaluation
\* shallow)
JsProduct(sizes) ==
  LET reduce[a \in [ total : [ kind : STRING, int : Int, hi : Int, lo : Int, exp : Int ],
                     from : Nat, to : Nat ]] ==
        IF a.from > a.to THEN a.total
        ELSE IF a.from = a.to THEN JsTimes(a.total, sizes[a.from])
        ELSE reduce[[ total |-> reduce[[ total |-> a.total, from |-> a.from,
                                         to |-> (a.from + a.to) \div 2 ]],
                      from  |-> (a.from + a.to) \div 2 + 1,
                      to    |-> a.to ]]
  IN  reduce[[ total |-> JsNumber(1), from |-> 1, to |-> Len(sizes) ]]

\* a > k and a <= k for an integer k; both are false of NaN
JsGreater(a, k) == a.kind \in { "big", "inf" } \/ (a.kind = "int" /\ a.int > k)
JsAtMost(a, k) == a.kind = "int" /\ a.int <= k

\* Math.min(k, a) for an integer k
JsMin(k, a) ==
  CASE a.kind = "nan" -> JsNaN
    [] a.kind \in { "big", "inf" } -> JsNumber(k)
    [] a.kind = "int" -> JsNumber(Min(k, a.int))

\* the integer a loop counts up to under "count < bound": none under NaN
LoopBound(bound) == IF bound.kind = "nan" THEN 0 ELSE bound.int

(***************************************************************************)
(* Wildcard parsing functions                                              *)
(***************************************************************************)
IsBrace(c) == c = "{" \/ c = "}"

\* the first position >= k holding a brace, or Len(text) + 1: the end of the
\* run [^{}]* that starts at k
RunEnd(text, k) ==
  LET end[q \in 1..(Len(text) + 1)] ==
        IF q > Len(text) \/ IsBrace(text[q]) THEN q ELSE end[q + 1]
  IN  end[k]

\* /\{([^{}]+)\}/ matches at position s
MatchAt(text, s) ==
  /\ text[s] = "{"
  /\ \E e \in { RunEnd(text, s + 1) } : e > s + 1 /\ e <= Len(text) /\ text[e] = "}"

\* the successive matches of the global regex from position p on, each
\* [s |-> position of the open brace, e |-> position of the close brace]; the
\* search goes on right after the close brace of a match
RegexMatches(text, p) ==
  LET scan[q \in 1..(Len(text) + 1)] ==
        IF q > Len(text) THEN << >>
        ELSE IF MatchAt(text, q)
             THEN << [s |-> q, e |-> RunEnd(text, q + 1)] >>
                    \o scan[RunEnd(text, q + 1) + 1]
             ELSE scan[q + 1]
  IN  scan[p]

\* extractWildcardGroups that pushes match[0], the whole match
extractWildcardGroupsWholeMatch(text) ==
  LET ms == RegexMatches(text, 1)
  IN  [k \in 1..Len(ms) |-> SubSeq(text, ms[k].s, ms[k].e)]

extractWildcardGroups(text) ==
  LET ms == RegexMatches(text, 1)
  IN  [k \in 1..Len(ms) |-> SubSeq(text, ms[k].s + 1, ms[k].e - 1)]

\* splitOptions that drops the empty pieces before it trims
splitOptionsFilterFirst(groupText) ==
  LET pieces == SelectSeq(SplitPipe(groupText, << >>), LAMBDA opt : Len(opt) > 0)
  IN  [k \in 1..Len(pieces) |-> Trim(pieces[k])]

splitOptions(groupText) ==
  LET pieces  == SplitPipe(groupText, << >>)
      trimmed == [k \in 1..Len(pieces) |-> Trim(pieces[k])]
  IN  SelectSeq(trimmed, LAMBDA opt : Len(opt) > 0)

getAllOptions(promptText_) ==
  LET groups == extractWildcardGroups(promptText_)
  IN  [k \in 1..Len(groups) |-> splitOptions(groups[k])]

\* text.replace(regex, () => values[idx++] || ''), ms being the matches: the
\* text between the match before and match number k (1-based), the replacement
\* of match k, the same for the later matches, then the rest of the text
\* ReplaceMatches whose callback never advances idx
ReplaceMatchesSameValue(text, ms, values) ==
  LET from[k \in 1..(Len(ms) + 1)] ==
        LET p == IF k = 1 THEN 1 ELSE ms[k - 1].e + 1
        IN  IF k > Len(ms) THEN SubSeq(text, p, Len(text))
            ELSE SubSeq(text, p, ms[k].s - 1) \o OrEmpty(At(values, 0)) \o from[k + 1]
  IN  from[1]

ReplaceMatches(text, ms, values) ==
  LET from[k \in 1..(Len(ms) + 1)] ==
        LET p == IF k = 1 THEN 1 ELSE ms[k - 1].e + 1
        IN  IF k > Len(ms) THEN SubSeq(text, p, Len(text))
            ELSE SubSeq(text, p, ms[k].s - 1) \o OrEmpty(At(values, k - 1)) \o from[k + 1]
  IN  from[1]

applyValuesToPrompt(promptText_, values) ==
  ReplaceMatches(promptText_, RegexMatches(promptText_, 1), values)

RECURSIVE ExtendAll(_, _)
\* for (const prev of result) for (const opt of opts) newResult.push([...prev, opt])
ExtendAll(result, opts) ==
  IF result = << >> THEN << >>
  ELSE [k \in 1..Len(opts) |-> Append(Head(result), opts[k])]
         \o ExtendAll(Tail(result), opts)

RECURSIVE ProductFrom(_, _)
ProductFrom(result, lists) ==
  IF lists = << >> THEN result
  ELSE ProductFrom(ExtendAll(result, Head(lists)), Tail(lists))

computeCartesianProduct(lists) ==
  IF Len(lists) = 0 THEN << << >> >> ELSE ProductFrom(<< << >> >>, lists)

RECURSIVE CarryNoReset(_, _, _)
\* Carry without "indices[i] = 0": the overflowing digit keeps its value
CarryNoReset(lists, indices, i) ==
  IF i < 1 THEN indices
  ELSE IF indices[i] + 1 < Len(lists[i])
       THEN [indices EXCEPT ![i] = indices[i] + 1]
       ELSE CarryNoReset(lists, indices, i - 1)

\* Carry that resets the last digit when it overflows and carries into no
\* other group
CarryNoPropagate(lists, indices, i) ==
  IF i < 1 THEN indices
  ELSE IF indices[i] + 1 < Len(lists[i])
       THEN [indices EXCEPT ![i] = indices[i] + 1]
       ELSE [indices EXCEPT ![i] = 0]

RECURSIVE Carry(_, _, _)
\* for (let i = indices.length - 1; i >= 0; i--) { indices[i] += 1; ... },
\* i being 1-based here
Carry(lists, indices, i) ==
  IF i < 1 THEN indices
  ELSE IF indices[i] + 1 < Len(lists[i])
       THEN [indices EXCEPT ![i] = indices[i] + 1]
       ELSE Carry(lists, [indices EXCEPT ![i] = 0], i - 1)

\* indices once the carry loop has run n times: the body of the outer for loop
\* changes indices by the carry loop alone (n is split in halves to keep the
\* evaluation shallow)
CarryTimes(lists, indices, n) ==
  LET times[a \in [ indices : [1..Len(lists) -> Nat], n : Nat ]] ==
        IF a.n = 0 THEN a.indices
        ELSE IF a.n = 1 THEN Carry(lists, a.indices, Len(lists))
        ELSE times[[ indices |-> times[[ indices |-> a.indices, n |-> a.n \div 2 ]],
                     n       |-> a.n - (a.n \div 2) ]]
  IN  times[[ indices |-> indices, n |-> n ]]

\* the outer for loop of computeCartesianPreview: the entry pushed in iteration
\* count (0-based in the code, position count + 1 of the result) is read from
\* the indices left by the count carry loops before it
PreviewLoop(lists, maxCount) ==
  [ k \in 1..maxCount |->
      LET indices == CarryTimes(lists, [g \in 1..Len(lists) |-> 0], k - 1)
      IN  [g \in 1..Len(lists) |-> OrEmpty(At(lists[g], indices[g]))] ]

computeCartesianPreview(lists, limit) ==
  IF Len(lists) = 0 THEN << << >> >>
  ELSE LET totalCombos == JsProduct([g \in 1..Len(lists) |-> Len(lists[g])])
           maxCount    == JsMin(limit, totalCombos)
       IN  PreviewLoop(lists, LoopBound(maxCount))

calculateMaxCombinations(promptText_) ==
  LET optionsList_ == getAllOptions(promptText_)
  IN  IF Len(optionsList_) = 0 THEN JsNumber(0)
      ELSE JsProduct([g \in 1..Len(optionsList_) |-> Len(optionsList_[g])])

(***************************************************************************)
(* The functions of v1.7 that differ from those of v2.0                    *)
(* (extractWildcardGroups, applyValuesToPrompt and computeCartesianProduct *)
(* are the same in both)                                                   *)
(***************************************************************************)
\* groupText.split('|').map(opt => opt.trim()): no piece is dropped
splitOptionsV17(groupText) ==
  LET pieces == SplitPipe(groupText, << >>)
  IN  [k \in 1..Len(pieces) |-> Trim(pieces[k])]

getAllOptionsV17(promptText_) ==
  LET groups == extractWildcardGroups(promptText_)
  IN  [k \in 1..Len(groups) |-> splitOptionsV17(groups[k])]

\* 'Max combos: ' + getAllOptions(prompt).reduce((a, o) => a * o.length, 1)
MaxCombosV17(promptText_) ==
  LET optionsList_ == getAllOptionsV17(promptText_)
  IN  JsProduct([g \in 1..Len(optionsList_) |-> Len(optionsList_[g])])

(***************************************************************************)
(* State                                                                   *)
(***************************************************************************)
VARIABLES
  userInput,       \* what showMainUI returned: text, count, the switches, mode
  pc,              \* where main is
  promptText,      \* main's promptText (the trimmed text)
  batchCount,      \* main's batchCount
  warned,          \* console.warn('Batch count capped ...') was emitted
  optionsList,     \* the generator's optionsList
  limitedCombinations, \* generateCartesian's limitedCombinations
  total,           \* the bound of the generator's loop
  i,               \* the generator's loop index
  selectedValues,  \* the values of the current iteration
  filledPrompt,    \* the filled prompt of the current iteration
  logged,          \* the last "[index/total] Mode: prompt" line of the console
  started,         \* pipeline.run calls entered
  completed,       \* pipeline.run calls that returned
  lastPrompt,      \* the prompt of the last pipeline.run call
  failedAt,        \* the number of the pipeline.run call that threw, or 0
  actualCount,     \* main's actualCount
  report,          \* the dialog or console line that ends the run
  built,           \* substitution sets the cartesian enumerators have built
  hostConfiguration, \* pipeline.configuration, the object of the host
  config,          \* main's config
  sentConfig,      \* the configuration of the last pipeline.run call
  debugLines,      \* the number of [DEBUG] lines on the console
  fnIn,            \* the arguments of a function applied on its own
  fnOut            \* its result

runVars == << userInput, pc, promptText, batchCount, warned, optionsList,
              limitedCombinations, total, i, selectedValues, filledPrompt,
              logged, started, completed, lastPrompt, failedAt, actualCount,
              report, built >>
cfgVars == << hostConfiguration, config, sentConfig, debugLines >>
fnVars == << fnIn, fnOut >>
vars == << runVars, cfgVars, fnVars >>

(***************************************************************************)
(* Inputs                                                                  *)
(***************************************************************************)
\* "a {red|blue} {cat|dog}"
TplRedCat == << "a", " ", "{", "r", "e", "d", "|", "b", "l", "u", "e", "}",
                " ", "{", "c", "a", "t", "|", "d", "o", "g", "}" >>
\* "{x|y|z}"
TplXyz == << "{", "x", "|", "y", "|", "z", "}" >>
\* "{x|y|z} {p|q}"
TplXyzPq == << "{", "x", "|", "y", "|", "z", "}", " ", "{", "p", "|", "q", "}" >>
\* "a {b"
TplOpenOnly == << "a", " ", "{", "b" >>
\* "a {}"
TplEmptyBraces == << "a", " ", "{", "}" >>
\* "abc"
TplPlain == << "a", "b", "c" >>
\* "   "
TplBlank == << " ", " ", " " >>
\* "{a|b}{a|b}"
TplTwice == << "{", "a", "|", "b", "}", "{", "a", "|", "b", "}" >>
\* "{ | }x{p|q}"
TplNoOption == << "{", " ", "|", " ", "}", "x", "{", "p", "|", "q", "}" >>
\* " {a| b |} "
TplSpaces == << " ", "{", "a", "|", " ", "b", " ", "|", "}", " " >>
\* "{{a}|b}"
TplNested == << "{", "{", "a", "}", "|", "b", "}" >>

\* "{a|b|c|d}{a|b|c|d}{a|b|c|d}{a|b|c|d}": 256 combinations, more than the cap
TplManyCombinations ==
  << "{", "a", "|", "b", "|", "c", "|", "d", "}", "{", "a", "|", "b", "|", "c", "|", "d", "}",
     "{", "a", "|", "b", "|", "c", "|", "d", "}", "{", "a", "|", "b", "|", "c", "|", "d", "}" >>

Templates == { TplRedCat, TplXyz, TplXyzPq, TplOpenOnly, TplEmptyBraces,
               TplPlain, TplBlank, TplTwice, TplNoOption, TplSpaces, TplNested }

RequestedCounts == (-1 .. MaxRequested) \cup { 10, MAX_BATCH_COUNT, 9999 }

Modes == { MODE_RANDOM, MODE_SEQUENTIAL, MODE_CARTESIAN, MODE_TEST }

\* the template of 256 combinations is run in the modes that draw nothing at
\* random (in Random mode every iteration of it has 256 outcomes)
UserInputs ==
  [ text : Templates, count : RequestedCounts, useMax : BOOLEAN,
    useSameSeed : { FALSE }, debugEnabled : { FALSE }, mode : Modes ]
  \cup [ text : { TplManyCombinations }, count : RequestedCounts, useMax : BOOLEAN,
         useSameSeed : { FALSE }, debugEnabled : { FALSE },
         mode : Modes \ { MODE_RANDOM } ]

\* pipeline.configuration: a seed and a number of steps stand for its fields
DefaultConfiguration == [seed |-> 42, steps |-> 20]
\* no configuration object yet
NoConfiguration == [seed |-> 0, steps |-> 0]

\* the strings options are made of when an enumerator is applied on its own
OptionNames == { << "a" >>, << "b" >> }

\* the option lists of one group: at most MaxOpts options
GroupLists == UNION { [1..n -> OptionNames] : n \in 0..MaxOpts }

\* the lists handed to the enumerators: at most MaxGroups groups
OptionLists == UNION { [1..n -> GroupLists] : n \in 0..MaxGroups }

(***************************************************************************)
(* Console lines and dialogs                                               *)
(***************************************************************************)
NoCount == -1
\* a count that is NaN
NaNCount == -2
NoLog == [index |-> 0, total |-> 0, mode |-> "", prompt |-> EmptyStr]
NoReport == [kind |-> "none", count |-> NoCount, of |-> NoCount, msg |-> ""]

\* error.message of a pipeline.run call that throws
GenerationError == "pipeline.run failed"

ModeName(modeIndex) ==
  CASE modeIndex = MODE_RANDOM     -> "Random"
    [] modeIndex = MODE_SEQUENTIAL -> "Sequential"
    [] modeIndex = MODE_CARTESIAN  -> "Cartesian"
    [] modeIndex = MODE_TEST       -> "Test"

\* LogLine printing the 0-based loop index
LogLineZeroBased(index, count, modeName, prompt) ==
  [index |-> index, total |-> count, mode |-> modeName, prompt |-> prompt]

\* console.log(`[${index + 1}/${count}] ${modeName}: ${filledPrompt}`), index
\* being the 0-based loop index
LogLine(index, count, modeName, prompt) ==
  [index |-> index + 1, total |-> count, mode |-> modeName, prompt |-> prompt]

\* showNoWildcardsError
NoWildcardsDialog ==
  [kind |-> "nowild", count |-> NoCount, of |-> NoCount,
   msg |-> "Please include at least one wildcard in your prompt."]

\* console.error('Invalid batch count:', batchCount)
InvalidCountLine(count) ==
  [kind |-> "invalid", count |-> NoCount, of |-> count, msg |-> "Invalid batch count"]

\* showCompletionDialog(modeIndex, batchCount, actualCount)
showCompletionDialog(modeIndex, batchCount_, actualCount_) ==
  [kind |-> "complete", count |-> actualCount_, of |-> batchCount_,
   msg |-> IF modeIndex = MODE_TEST THEN "Test mode completed successfully!"
           ELSE IF modeIndex = MODE_CARTESIAN /\ actualCount_ # batchCount_
                THEN "Generated count of requested images."
                ELSE "Successfully generated count images."]

\* the catch block of main: the dialog shows error.message and nothing else
ErrorDialog(message) ==
  [kind |-> "error", count |-> NoCount, of |-> NoCount, msg |-> message]

(***************************************************************************)
(* main, up to the generator                                               *)
(***************************************************************************)
\* the two validations that end in showNoWildcardsError
RejectsPrompt(text, modeIndex) ==
  \/ text = EmptyStr
  \/ modeIndex # MODE_TEST /\ ~Includes(text, "{")

\* PlanBatchCount without the cap
PlanBatchCountNoCap(requested, useMaxCount, maxCombosForPrompt) ==
  [count  |-> IF useMaxCount /\ JsGreater(maxCombosForPrompt, 0)
                 /\ JsAtMost(maxCombosForPrompt, MAX_BATCH_COUNT)
              THEN maxCombosForPrompt.int ELSE requested,
   warned |-> FALSE]

\* PlanBatchCount without the use-max step
PlanBatchCountIgnoresUseMax(requested, useMaxCount, maxCombosForPrompt) ==
  [count  |-> IF requested > MAX_BATCH_COUNT THEN MAX_BATCH_COUNT ELSE requested,
   warned |-> requested > MAX_BATCH_COUNT]

\* batchCount after the use-max step and the cap, and whether the cap warned
PlanBatchCount(requested, useMaxCount, maxCombosForPrompt) ==
  LET afterMax == IF useMaxCount /\ JsGreater(maxCombosForPrompt, 0)
                     /\ JsAtMost(maxCombosForPrompt, MAX_BATCH_COUNT)
                  THEN maxCombosForPrompt.int ELSE requested
  IN  [count  |-> IF afterMax > MAX_BATCH_COUNT THEN MAX_BATCH_COUNT ELSE afterMax,
       warned |-> afterMax > MAX_BATCH_COUNT]

\* InvalidCount without "batchCount < 1"
InvalidCountOnlyAboveCap(count) == count > MAX_BATCH_COUNT

\* if (batchCount < 1 || batchCount > MAX_BATCH_COUNT)
InvalidCount(count) == count < 1 \/ count > MAX_BATCH_COUNT

(***************************************************************************)
(* runTestMode                                                             *)
(***************************************************************************)
\* 'smoke {one|two}'
testPrompt == << "s", "m", "o", "k", "e", " ", "{", "o", "n", "e", "|", "t", "w", "o", "}" >>
\* 'a {red|blue} {cat|dog|fox}'
multiPrompt == << "a", " ", "{", "r", "e", "d", "|", "b", "l", "u", "e", "}", " ",
                  "{", "c", "a", "t", "|", "d", "o", "g", "|", "f", "o", "x", "}" >>

\* the message of the first check that throws before the generation call, or ""
TestChecksBefore ==
  LET groups  == extractWildcardGroups(testPrompt)
      options == splitOptions(groups[1])
  IN  IF Len(groups) # 1 \/ groups[1] # << "o", "n", "e", "|", "t", "w", "o" >>
      THEN "extractWildcardGroups failed"
      ELSE IF Len(options) # 2 \/ options[1] # << "o", "n", "e" >>
                \/ options[2] # << "t", "w", "o" >>
           THEN "splitOptions failed"
           ELSE ""

\* `TEST MODE SUCCESS: ${result}`, the prefix kept as one token
successMessage ==
  LET options == splitOptions(extractWildcardGroups(testPrompt)[1])
  IN  << "TEST MODE SUCCESS: " >> \o applyValuesToPrompt(testPrompt, << At(options, 0) >>)

\* the message of the first check that throws after the generation call, or ""
TestChecksAfter ==
  LET multiGroups    == extractWildcardGroups(multiPrompt)
      multiOptions   == getAllOptions(multiPrompt)
      expectedCombos == JsProduct([g \in 1..Len(multiOptions) |-> Len(multiOptions[g])])
      actualCombos   == calculateMaxCombinations(multiPrompt)
      combos         == computeCartesianProduct(multiOptions)
      previewCombos  == computeCartesianPreview(multiOptions, PREVIEW_COUNT)
  IN  IF Len(multiGroups) # 2 THEN "extractWildcardGroups (multi) failed"
      ELSE IF actualCombos # expectedCombos THEN "calculateMaxCombinations failed"
      ELSE IF JsNumber(Len(combos)) # expectedCombos THEN "computeCartesianProduct failed"
      ELSE IF Len(previewCombos) # PREVIEW_COUNT THEN "computeCartesianPreview failed"
      ELSE IF MAX_BATCH_COUNT < 1 THEN "MAX_BATCH_COUNT must be >= 1"
      ELSE ""

(***************************************************************************)
(* The generators' choice of values                                        *)
(***************************************************************************)
\* RandomValues drawing Math.floor(Math.random() * (opts.length - 1)): the last
\* option of a group of two or more is never drawn
RandomValuesNeverLast(optionsList_) ==
  { v \in [1..Len(optionsList_) ->
             UNION { { optionsList_[g][k] : k \in 1..Len(optionsList_[g]) } \cup { EmptyStr }
                     : g \in 1..Len(optionsList_) }] :
      \A g \in 1..Len(optionsList_) :
         IF Len(optionsList_[g]) = 0 THEN v[g] = EmptyStr
         ELSE IF Len(optionsList_[g]) = 1 THEN v[g] = optionsList_[g][1]
         ELSE \E r \in 0..(Len(optionsList_[g]) - 2) : v[g] = optionsList_[g][r + 1] }

\* generateRandom: opts.length === 0 gives '', otherwise
\* opts[Math.floor(Math.random() * opts.length)], any index being possible
RandomValues(optionsList_) ==
  { v \in [1..Len(optionsList_) ->
             UNION { { optionsList_[g][k] : k \in 1..Len(optionsList_[g]) } \cup { EmptyStr }
                     : g \in 1..Len(optionsList_) }] :
      \A g \in 1..Len(optionsList_) :
         IF Len(optionsList_[g]) = 0 THEN v[g] = EmptyStr
         ELSE \E r \in 0..(Len(optionsList_[g]) - 1) : v[g] = optionsList_[g][r + 1] }

\* SequentialValues cycling from the second option: opts[(i + 1) % opts.length]
SequentialValuesOffByOne(optionsList_, index) ==
  [g \in 1..Len(optionsList_) |->
     At(optionsList_[g], JsMod(index + 1, Len(optionsList_[g])))]

\* generateSequential: opts[i % opts.length]
SequentialValues(optionsList_, index) ==
  [g \in 1..Len(optionsList_) |->
     At(optionsList_[g], JsMod(index, Len(optionsList_[g])))]

\* generateCartesian: the combo of limitedCombinations.forEach
CartesianValues(combinations, index) == combinations[index + 1]

(***************************************************************************)
(* Actions of a run                                                        *)
(***************************************************************************)
NoArgs == [lists |-> << >>, limit |-> 0]
NoResult == [done |-> FALSE, preview |-> << >>, product |-> << >>, exhaustive |-> << >>]

IdleFn == fnIn = NoArgs /\ fnOut = NoResult

IdleRun ==
  /\ pc = "idle"
  /\ userInput = [text |-> EmptyStr, count |-> 0, useMax |-> FALSE,
                  useSameSeed |-> FALSE, debugEnabled |-> FALSE,
                  mode |-> MODE_RANDOM]
  /\ hostConfiguration = DefaultConfiguration
  /\ config = NoConfiguration
  /\ sentConfig = NoConfiguration
  /\ debugLines = 0
  /\ promptText = EmptyStr
  /\ batchCount = 0
  /\ warned = FALSE
  /\ optionsList = << >>
  /\ limitedCombinations = << >>
  /\ total = 0
  /\ i = 0
  /\ selectedValues = << >>
  /\ filledPrompt = EmptyStr
  /\ logged = NoLog
  /\ started = 0
  /\ completed = 0
  /\ lastPrompt = EmptyStr
  /\ failedAt = 0
  /\ actualCount = 0
  /\ report = NoReport
  /\ built = 0

\* the dialog has returned; main has not run yet
FreshRun ==
  /\ pc = "ui"
  /\ promptText = EmptyStr
  /\ batchCount = 0
  /\ warned = FALSE
  /\ optionsList = << >>
  /\ limitedCombinations = << >>
  /\ total = 0
  /\ i = 0
  /\ selectedValues = << >>
  /\ filledPrompt = EmptyStr
  /\ logged = NoLog
  /\ started = 0
  /\ completed = 0
  /\ lastPrompt = EmptyStr
  /\ failedAt = 0
  /\ actualCount = 0
  /\ report = NoReport
  /\ built = 0
  /\ config = NoConfiguration
  /\ sentConfig = NoConfiguration
  /\ debugLines = 0
  /\ IdleFn

Init ==
  /\ userInput \in UserInputs
  /\ hostConfiguration = DefaultConfiguration
  /\ FreshRun

\* const config = pipeline.configuration; if (!useSameSeed) config.seed = -1;
\* which writes the seed of the host's object: the configuration of the host and
\* that of main after it
PrepareConfigurationInPlace(host, useSameSeed) ==
  IF useSameSeed THEN [host |-> host, config |-> host]
  ELSE [host |-> [host EXCEPT !.seed = -1], config |-> [host EXCEPT !.seed = -1]]

\* const config = { ...pipeline.configuration }; if (!useSameSeed) config.seed = -1;
\* the configuration of the host and that of main after it
PrepareConfiguration(host, useSameSeed) ==
  [host   |-> host,
   config |-> IF useSameSeed THEN host ELSE [host EXCEPT !.seed = -1]]

\* the [DEBUG] lines main writes: one after the cap when use-max and debug are
\* on, two after the start lines when debug is on
DebugLinesOfMain(useMaxCount, debugEnabled, invalid) ==
  (IF useMaxCount /\ debugEnabled THEN 1 ELSE 0)
    + (IF debugEnabled /\ ~invalid THEN 2 ELSE 0)

\* the [DEBUG] lines of logSubstitutions
DebugLinesOfSubstitutions(debugEnabled, optionsList_) ==
  IF debugEnabled THEN 2 + (IF Len(optionsList_) > 0 THEN 1 ELSE 0) ELSE 0

\* main from its first line to the first iteration of the generator (or to the
\* return or throw that ends it before)
Main ==
  /\ pc = "ui"
  /\ LET text == Trim(userInput.text)
         maxCombosForPrompt == calculateMaxCombinations(text)
         plan == PlanBatchCount(userInput.count, userInput.useMax, maxCombosForPrompt)
         opts == getAllOptions(text)
         prepared == PrepareConfiguration(hostConfiguration, userInput.useSameSeed)
         proceeds == ~RejectsPrompt(text, userInput.mode) /\ ~InvalidCount(plan.count)
     IN  /\ promptText' = text
         /\ hostConfiguration' = IF proceeds THEN prepared.host ELSE hostConfiguration
         /\ config' = IF proceeds THEN prepared.config ELSE config
         /\ debugLines' =
              IF RejectsPrompt(text, userInput.mode) THEN debugLines
              ELSE debugLines + DebugLinesOfMain(userInput.useMax, userInput.debugEnabled,
                                                 InvalidCount(plan.count))
         /\ built' = IF /\ ~RejectsPrompt(text, userInput.mode)
                         /\ ~InvalidCount(plan.count)
                         /\ userInput.mode = MODE_CARTESIAN
                      THEN Len(computeCartesianPreview(opts, plan.count))
                      ELSE built
         /\ IF RejectsPrompt(text, userInput.mode)
            THEN /\ pc' = "nowild"
                 /\ report' = NoWildcardsDialog
                 /\ UNCHANGED << batchCount, warned, optionsList, limitedCombinations,
                                 total, actualCount, filledPrompt, logged >>
            ELSE IF InvalidCount(plan.count)
            THEN /\ pc' = "invalid"
                 /\ batchCount' = plan.count
                 /\ warned' = plan.warned
                 /\ report' = InvalidCountLine(plan.count)
                 /\ UNCHANGED << optionsList, limitedCombinations, total, actualCount,
                                 filledPrompt, logged >>
            ELSE /\ batchCount' = plan.count
                 /\ warned' = plan.warned
                 /\ IF userInput.mode = MODE_TEST
                    THEN /\ actualCount' = plan.count
                         /\ UNCHANGED << optionsList, limitedCombinations, total >>
                         /\ IF TestChecksBefore # ""
                            THEN /\ pc' = "error"
                                 /\ report' = ErrorDialog(TestChecksBefore)
                                 /\ UNCHANGED << filledPrompt, logged >>
                            ELSE /\ pc' = "call"
                                 /\ filledPrompt' = successMessage
                                 /\ logged' = [index |-> 0, total |-> 0, mode |-> "Test",
                                               prompt |-> successMessage]
                                 /\ report' = report
                    ELSE /\ optionsList' = opts
                         /\ limitedCombinations' =
                              IF userInput.mode = MODE_CARTESIAN
                              THEN computeCartesianPreview(opts, plan.count) ELSE << >>
                         /\ total' = IF userInput.mode = MODE_CARTESIAN
                                     THEN Len(computeCartesianPreview(opts, plan.count))
                                     ELSE plan.count
                         /\ actualCount' =
                              IF userInput.mode # MODE_CARTESIAN THEN plan.count
                              ELSE IF JsMin(plan.count, maxCombosForPrompt).kind = "nan"
                                   THEN NaNCount
                                   ELSE JsMin(plan.count, maxCombosForPrompt).int
                         /\ pc' = "loop"
                         /\ UNCHANGED << filledPrompt, logged, report >>
  /\ UNCHANGED << userInput, i, selectedValues, started, completed, lastPrompt,
                  failedAt, sentConfig, fnVars >>

\* the test of the generator's loop: i < count
LoopContinuesUnlessDebug == i < total /\ ~userInput.debugEnabled

\* for (let i = 0; i < count; i++), and forEach over limitedCombinations
LoopContinues == i < total

\* one iteration of a generator up to its runGeneration call: the values, the
\* filled prompt, the console line
Prepare ==
  /\ pc = "loop"
  /\ LoopContinues
  /\ debugLines' = debugLines
                     + DebugLinesOfSubstitutions(userInput.debugEnabled, optionsList)
  /\ \E values \in
          CASE userInput.mode = MODE_RANDOM     -> RandomValues(optionsList)
            [] userInput.mode = MODE_SEQUENTIAL -> { SequentialValues(optionsList, i) }
            [] userInput.mode = MODE_CARTESIAN  -> { CartesianValues(limitedCombinations, i) } :
       /\ selectedValues' = values
       /\ filledPrompt' = applyValuesToPrompt(promptText, values)
       /\ logged' = LogLine(i, total, ModeName(userInput.mode),
                            applyValuesToPrompt(promptText, values))
  /\ pc' = "call"
  /\ UNCHANGED << userInput, promptText, batchCount, warned, optionsList,
                  limitedCombinations, total, i, started, completed, lastPrompt,
                  failedAt, actualCount, report, built, hostConfiguration, config,
                  sentConfig, fnVars >>

\* runGeneration enters pipeline.run
Invoke ==
  /\ pc = "call"
  /\ started' = started + 1
  /\ lastPrompt' = filledPrompt
  /\ sentConfig' = config
  /\ pc' = "running"
  /\ UNCHANGED << userInput, promptText, batchCount, warned, optionsList,
                  limitedCombinations, total, i, selectedValues, filledPrompt, logged,
                  completed, failedAt, actualCount, report, built, hostConfiguration,
                  config, debugLines, fnVars >>

\* pipeline.run returns; the loop goes on
Return ==
  /\ pc = "running"
  /\ completed' = completed + 1
  /\ i' = i + 1
  /\ pc' = IF userInput.mode = MODE_TEST THEN "posttest" ELSE "loop"
  /\ UNCHANGED << userInput, promptText, batchCount, warned, optionsList,
                  limitedCombinations, total, selectedValues, filledPrompt, logged,
                  started, lastPrompt, failedAt, actualCount, report, built, cfgVars, fnVars >>

\* Throw with the error caught inside the loop, which goes on
ThrowSwallowed ==
  /\ pc = "running"
  /\ failedAt' = started
  /\ i' = i + 1
  /\ pc' = "loop"
  /\ UNCHANGED << userInput, promptText, batchCount, warned, optionsList,
                  limitedCombinations, total, selectedValues, filledPrompt, logged,
                  started, completed, lastPrompt, actualCount, report, built, cfgVars, fnVars >>

\* pipeline.run throws; nothing catches before the catch block of main
Throw ==
  /\ pc = "running"
  /\ failedAt' = started
  /\ report' = ErrorDialog(GenerationError)
  /\ pc' = "error"
  /\ UNCHANGED << userInput, promptText, batchCount, warned, optionsList,
                  limitedCombinations, total, i, selectedValues, filledPrompt, logged,
                  started, completed, lastPrompt, actualCount, built, cfgVars, fnVars >>

\* the substitution sets runTestMode has built when it ends: those of
\* computeCartesianProduct and of computeCartesianPreview, each if it was reached
TestBuilt ==
  LET multiOptions == getAllOptions(multiPrompt)
  IN  IF TestChecksAfter \in { "extractWildcardGroups (multi) failed",
                               "calculateMaxCombinations failed" }
      THEN 0
      ELSE IF TestChecksAfter = "computeCartesianProduct failed"
      THEN Len(computeCartesianProduct(multiOptions))
      ELSE Len(computeCartesianProduct(multiOptions))
             + Len(computeCartesianPreview(multiOptions, PREVIEW_COUNT))

\* runTestMode after its generation call, then the completion dialog
TestRest ==
  /\ pc = "posttest"
  /\ built' = built + TestBuilt
  /\ IF TestChecksAfter # ""
     THEN /\ pc' = "error"
          /\ report' = ErrorDialog(TestChecksAfter)
          /\ UNCHANGED actualCount
     ELSE /\ pc' = "done"
          /\ actualCount' = 1
          /\ report' = showCompletionDialog(userInput.mode, batchCount, 1)
  /\ UNCHANGED << userInput, promptText, batchCount, warned, optionsList,
                  limitedCombinations, total, i, selectedValues, filledPrompt, logged,
                  started, completed, lastPrompt, failedAt, cfgVars, fnVars >>

\* Complete without the completion dialog: main stays where the loop ended
CompleteNever ==
  /\ pc = "loop"
  /\ ~LoopContinues
  /\ UNCHANGED vars

\* the generator's loop is over: the completion dialog
Complete ==
  /\ pc = "loop"
  /\ ~LoopContinues
  /\ report' = showCompletionDialog(userInput.mode, batchCount, actualCount)
  /\ pc' = "done"
  /\ UNCHANGED << userInput, promptText, batchCount, warned, optionsList,
                  limitedCombinations, total, i, selectedValues, filledPrompt, logged,
                  started, completed, lastPrompt, failedAt, actualCount, built, cfgVars, fnVars >>

Next == Main \/ Prepare \/ Invoke \/ Return \/ Throw \/ TestRest \/ Complete

Spec == Init /\ [][Next]_vars

(***************************************************************************)
(* The run under every setting of the switches of the dialog and with      *)
(* configurations of the host that differ in their seed                    *)
(***************************************************************************)
HostConfigurations == { DefaultConfiguration, [seed |-> -1, steps |-> 30] }

UserInputsSwitches ==
  [ text : { TplXyz, TplXyzPq, TplPlain, TplNoOption }, count : { 0, 1, 2, MaxRequested, 9999 },
    useMax : BOOLEAN, useSameSeed : BOOLEAN, debugEnabled : BOOLEAN, mode : Modes ]

InitSwitches ==
  /\ userInput \in UserInputsSwitches
  /\ hostConfiguration \in HostConfigurations
  /\ FreshRun

SpecSwitches == InitSwitches /\ [][Next]_vars

(***************************************************************************)
(* The run on templates whose number of combinations leaves the integers   *)
(* a Number holds exactly                                                  *)
(***************************************************************************)
RECURSIVE RepeatText(_, _)
RepeatText(text, n) == IF n = 0 THEN EmptyStr ELSE text \o RepeatText(text, n - 1)

\* "{a|b|c|d|e}" 23 times: 5^23 combinations, an odd number between 2^53 and
\* 2^54, which no Number holds
TplFives ==
  RepeatText(<< "{", "a", "|", "b", "|", "c", "|", "d", "|", "e", "}" >>, 23)
\* "{a|b|c|d|e|f|g|h}" 18 times: 8^18 = 2^54 combinations, which a Number holds
TplEights ==
  RepeatText(<< "{", "a", "|", "b", "|", "c", "|", "d", "|", "e", "|", "f", "|",
                "g", "|", "h", "}" >>, 18)

\* Random mode is left out: an iteration of it has 5^23 outcomes
UserInputsOverflow ==
  [ text : { TplFives, TplEights }, count : RequestedCounts, useMax : BOOLEAN,
    useSameSeed : { FALSE }, debugEnabled : { FALSE }, mode : Modes \ { MODE_RANDOM } ]

InitOverflow ==
  /\ userInput \in UserInputsOverflow
  /\ hostConfiguration = DefaultConfiguration
  /\ FreshRun

SpecOverflow == InitOverflow /\ [][Next]_vars

(***************************************************************************)
(* The run of v1.7: no trim, no cap, no console line, no catch block       *)
(***************************************************************************)
CountsV17 == (1 .. MaxRequested) \cup { 10, SLIDER_MAX_V17 }

UserInputsV17 ==
  [ text : Templates, count : CountsV17, useMax : { FALSE },
    useSameSeed : { FALSE }, debugEnabled : { FALSE }, mode : Modes ]
  \cup [ text : { TplManyCombinations }, count : CountsV17, useMax : { FALSE },
         useSameSeed : { FALSE }, debugEnabled : { FALSE },
         mode : Modes \ { MODE_RANDOM } ]

\* the 'No Wildcards' dialog
NoWildcardsDialogV17 ==
  [kind |-> "nowild", count |-> NoCount, of |-> NoCount,
   msg |-> "Please include at least one wildcard in {}."]

\* the 'Done' dialog: 'Generated ${batchCount} prompts.' or 'Test executed.'
DoneDialogV17(modeIndex, batchCount_) ==
  IF modeIndex = MODE_TEST
  THEN [kind |-> "complete", count |-> NoCount, of |-> NoCount, msg |-> "Test executed."]
  ELSE [kind |-> "complete", count |-> batchCount_, of |-> batchCount_,
        msg |-> "Generated count prompts."]

\* handleTestMode: the message of the first check that throws, or ""
TestChecksV17 ==
  LET groups == extractWildcardGroups(testPrompt)
      opts   == splitOptionsV17(OrEmpty(At(groups, 0)))
  IN  IF At(groups, 0) # << "o", "n", "e", "|", "t", "w", "o" >>
      THEN "extractWildcardGroups failed"
      ELSE IF At(opts, 0) # << "o", "n", "e" >> \/ At(opts, 1) # << "t", "w", "o" >>
           THEN "splitOptions failed"
           ELSE ""

\* 'TEST MODE SUCCESS: ' followed by applyValuesToPrompt(sample, [opts[0]])
successMessageV17 ==
  LET opts == splitOptionsV17(extractWildcardGroups(testPrompt)[1])
  IN  << "TEST MODE SUCCESS: " >> \o applyValuesToPrompt(testPrompt, << At(opts, 0) >>)

\* handleRandomMode: opts[Math.floor(Math.random() * opts.length)] for each
\* match, opts having at least one piece
RandomValuesV17(optionsList_) ==
  { v \in [1..Len(optionsList_) ->
             UNION { { optionsList_[g][k] : k \in 1..Len(optionsList_[g]) }
                     : g \in 1..Len(optionsList_) }] :
      \A g \in 1..Len(optionsList_) :
         \E r \in 0..(Len(optionsList_[g]) - 1) : v[g] = optionsList_[g][r + 1] }

\* computeCartesianProduct(optsList).slice(0, count)
SliceV17Whole(product, count) == product

SliceV17(product, count) == SubSeq(product, 1, Min(count, Len(product)))

InitV17 ==
  /\ userInput \in UserInputsV17
  /\ hostConfiguration = DefaultConfiguration
  /\ FreshRun

\* main of v1.7 from its first line to the first iteration of the handler (or
\* to the return or throw that ends it before)
\* const cfg = { ...pipeline.configuration, seed: -1 }
ConfigurationV17(host) == [host EXCEPT !.seed = -1]

MainV17 ==
  /\ pc = "ui"
  /\ promptText' = userInput.text
  /\ config' = ConfigurationV17(hostConfiguration)
  /\ batchCount' = userInput.count
  /\ actualCount' = userInput.count
  /\ IF userInput.mode # MODE_TEST /\ ~Includes(userInput.text, "{")
     THEN /\ pc' = "nowild"
          /\ report' = NoWildcardsDialogV17
          /\ UNCHANGED << optionsList, limitedCombinations, total, filledPrompt, built >>
     ELSE IF userInput.mode = MODE_TEST
     THEN /\ total' = 1
          /\ pc' = IF TestChecksV17 # "" THEN "crashed" ELSE "call"
          /\ filledPrompt' = IF TestChecksV17 # "" THEN filledPrompt ELSE successMessageV17
          /\ UNCHANGED << optionsList, limitedCombinations, report, built >>
     ELSE LET optsList == getAllOptionsV17(userInput.text)
              product  == computeCartesianProduct(optsList)
          IN  /\ optionsList' = optsList
              /\ IF userInput.mode = MODE_CARTESIAN
                 THEN /\ built' = Len(product)
                      /\ limitedCombinations' = SliceV17(product, userInput.count)
                      /\ total' = Len(SliceV17(product, userInput.count))
                 ELSE /\ total' = userInput.count
                      /\ UNCHANGED << limitedCombinations, built >>
              /\ pc' = "loop"
              /\ UNCHANGED << filledPrompt, report >>
  /\ UNCHANGED << userInput, warned, i, selectedValues, logged, started, completed,
                  lastPrompt, failedAt, hostConfiguration, sentConfig, debugLines,
                  fnVars >>

\* one iteration of a handler up to its runPrompt call
PrepareV17 ==
  /\ pc = "loop"
  /\ i < total
  /\ \E values \in
          CASE userInput.mode = MODE_RANDOM     -> RandomValuesV17(optionsList)
            [] userInput.mode = MODE_SEQUENTIAL -> { SequentialValues(optionsList, i) }
            [] userInput.mode = MODE_CARTESIAN  -> { CartesianValues(limitedCombinations, i) } :
       /\ selectedValues' = values
       /\ filledPrompt' = applyValuesToPrompt(promptText, values)
  /\ pc' = "call"
  /\ UNCHANGED << userInput, promptText, batchCount, warned, optionsList,
                  limitedCombinations, total, i, logged, started, completed, lastPrompt,
                  failedAt, actualCount, report, built, cfgVars, fnVars >>

\* pipeline.run returns; the handler goes on
ReturnV17 ==
  /\ pc = "running"
  /\ completed' = completed + 1
  /\ i' = i + 1
  /\ pc' = "loop"
  /\ UNCHANGED << userInput, promptText, batchCount, warned, optionsList,
                  limitedCombinations, total, selectedValues, filledPrompt, logged,
                  started, lastPrompt, failedAt, actualCount, report, built, cfgVars, fnVars >>

\* pipeline.run throws; nothing in the script catches, main ends with the error
ThrowV17 ==
  /\ pc = "running"
  /\ failedAt' = started
  /\ pc' = "crashed"
  /\ UNCHANGED << userInput, promptText, batchCount, warned, optionsList,
                  limitedCombinations, total, i, selectedValues, filledPrompt, logged,
                  started, completed, lastPrompt, actualCount, report, built, cfgVars, fnVars >>

\* the handler is over: the 'Done' dialog
CompleteV17 ==
  /\ pc = "loop"
  /\ i >= total
  /\ report' = DoneDialogV17(userInput.mode, batchCount)
  /\ pc' = "done"
  /\ UNCHANGED << userInput, promptText, batchCount, warned, optionsList,
                  limitedCombinations, total, i, selectedValues, filledPrompt, logged,
                  started, completed, lastPrompt, failedAt, actualCount, built, cfgVars, fnVars >>

NextV17 == MainV17 \/ PrepareV17 \/ Invoke \/ ReturnV17 \/ ThrowV17 \/ CompleteV17

SpecV17 == InitV17 /\ [][NextV17]_vars

(***************************************************************************)
(* The two enumerators applied on their own                                *)
(***************************************************************************)
InitFn ==
  /\ fnIn \in [lists : OptionLists, limit : 0..MaxLimit]
  /\ fnOut = NoResult
  /\ IdleRun

\* computeCartesianPreview(lists, limit), computeCartesianProduct(lists) and
\* computeCartesianPreview(lists, the product of the sizes of lists)
ApplyEnumerators ==
  /\ ~fnOut.done
  /\ fnOut' = [done    |-> TRUE,
               preview |-> computeCartesianPreview(fnIn.lists, fnIn.limit),
               product |-> computeCartesianProduct(fnIn.lists),
               exhaustive |->
                 computeCartesianPreview(fnIn.lists,
                   Product([g \in 1..Len(fnIn.lists) |-> Len(fnIn.lists[g])]))]
  /\ UNCHANGED << fnIn, runVars, cfgVars >>

NextFn == ApplyEnumerators

SpecFn == InitFn /\ [][NextFn]_vars

(***************************************************************************)
(* splitOptions applied on its own                                         *)
(***************************************************************************)
BodyChars == { "a", "b", "|", " " }

\* the group bodies: the strings of at most MaxBodyLen characters no brace is in
Bodies == UNION { [1..n -> BodyChars] : n \in 0..MaxBodyLen }

NoSplit == [done |-> FALSE, options |-> << >>, again |-> << >>,
            optionsV17 |-> << >>, againV17 |-> << >>]

InitSplit ==
  /\ fnIn \in [body : Bodies]
  /\ fnOut = NoSplit
  /\ IdleRun

\* splitOptions(body) and splitOptions(splitOptions(body).join('|')), in v2.0
\* and in v1.7
ApplySplit ==
  /\ ~fnOut.done
  /\ fnOut' = [done       |-> TRUE,
               options    |-> splitOptions(fnIn.body),
               again      |-> splitOptions(JoinPipe(splitOptions(fnIn.body))),
               optionsV17 |-> splitOptionsV17(fnIn.body),
               againV17   |-> splitOptionsV17(JoinPipe(splitOptionsV17(fnIn.body)))]
  /\ UNCHANGED << fnIn, runVars, cfgVars >>

NextSplit == ApplySplit

SpecSplit == InitSplit /\ [][NextSplit]_vars

(***************************************************************************)
(* The parser applied on its own to templates built of their parts         *)
(***************************************************************************)
\* the text between the groups: nothing, "a ", a lone closing brace or a lone
\* opening brace
Literals == { EmptyStr, << "a", " " >>, << "}" >>, << "{" >> }

\* the bodies of the groups: "a", "b|c", "d|e|f"
GroupBodies == { << "a" >>, << "b", "|", "c" >>, << "d", "|", "e", "|", "f" >> }

\* the values to substitute: "x" and "{y}"
ValueNames == { << "x" >>, << "{", "y", "}" >> }

RECURSIVE BuildTemplate(_, _)
\* lits[1] {bodies[1]} lits[2] ... {bodies[n]} lits[n + 1]
BuildTemplate(lits, bodies) ==
  IF bodies = << >> THEN lits[1]
  ELSE lits[1] \o << "{" >> \o bodies[1] \o << "}" >>
         \o BuildTemplate(Tail(lits), Tail(bodies))

\* the parts of "{a}{b|c}{d|e|f}"
ThreeGroupParts ==
  [lits   |-> << EmptyStr, EmptyStr, EmptyStr, EmptyStr >>,
   bodies |-> << << "a" >>, << "b", "|", "c" >>, << "d", "|", "e", "|", "f" >> >>]

TemplateParts ==
  UNION { [lits : [1..(n + 1) -> Literals], bodies : [1..n -> GroupBodies]]
          : n \in 0..MaxTplGroups }
  \cup { ThreeGroupParts }

ValueLists == UNION { [1..n -> ValueNames] : n \in 0..MaxValues }

NoParse == [done |-> FALSE, text |-> EmptyStr, groups |-> << >>,
            substituted |-> EmptyStr, maxCombinations |-> JsNumber(0),
            maxCombosV17 |-> JsNumber(0)]

InitParse ==
  /\ fnIn \in [parts : TemplateParts, values : ValueLists]
  /\ fnOut = NoParse
  /\ IdleRun

\* extractWildcardGroups(text), applyValuesToPrompt(text, values),
\* calculateMaxCombinations(text) and the 'Max combos' of v1.7
ApplyParse ==
  /\ ~fnOut.done
  /\ LET text == BuildTemplate(fnIn.parts.lits, fnIn.parts.bodies)
     IN  fnOut' = [done            |-> TRUE,
                   text            |-> text,
                   groups          |-> extractWildcardGroups(text),
                   substituted     |-> applyValuesToPrompt(text, fnIn.values),
                   maxCombinations |-> calculateMaxCombinations(text),
                   maxCombosV17    |-> MaxCombosV17(text)]
  /\ UNCHANGED << fnIn, runVars, cfgVars >>

NextParse == ApplyParse

SpecParse == InitParse /\ [][NextParse]_vars

(***************************************************************************)
(* The Sequential and Cartesian handlers of the two versions, applied to   *)
(* the same prompt text and count                                          *)
(***************************************************************************)
\* handleSequentialMode(promptText, count, cfg) of v1.7: the prompts run
handleSequentialMode(promptText_, count) ==
  LET optsList == getAllOptionsV17(promptText_)
  IN  [k \in 1..count |->
         applyValuesToPrompt(promptText_, SequentialValues(optsList, k - 1))]

\* handleCartesianMode(promptText, count, cfg) of v1.7: the prompts run
handleCartesianMode(promptText_, count) ==
  LET optsList == getAllOptionsV17(promptText_)
      combos   == SliceV17(computeCartesianProduct(optsList), count)
  IN  [k \in 1..Len(combos) |-> applyValuesToPrompt(promptText_, combos[k])]

\* generateSequential(promptText, count, config, debugEnabled) of v2.0: the
\* prompts run
generateSequential(promptText_, count) ==
  LET optionsList_ == getAllOptions(promptText_)
  IN  [k \in 1..count |->
         applyValuesToPrompt(promptText_, SequentialValues(optionsList_, k - 1))]

\* generateCartesian(promptText, count, config, debugEnabled) of v2.0: the
\* prompts run
generateCartesian(promptText_, count) ==
  LET optionsList_         == getAllOptions(promptText_)
      limitedCombinations_ == computeCartesianPreview(optionsList_, count)
  IN  [k \in 1..Len(limitedCombinations_) |->
         applyValuesToPrompt(promptText_,
                             CartesianValues(limitedCombinations_, k - 1))]

\* the bodies of the groups: "a", "b|c", "d|e|f", and with a piece that is
\* empty after trimming "a|" and " |b"
HandlerBodies ==
  GroupBodies \cup { << "a", "|" >>, << " ", "|", "b" >> }

\* the text between the groups: nothing or "a "
HandlerLiterals == { EmptyStr, << "a", " " >> }

HandlerParts ==
  UNION { [lits : [1..(n + 1) -> HandlerLiterals], bodies : [1..n -> HandlerBodies]]
          : n \in 0..MaxTplGroups }

\* the batch counts of the v1.7 slider, 1 to 100
HandlerCounts == (1 .. MaxRequested) \cup { 7, SLIDER_MAX_V17 }

NoPrompts == [done |-> FALSE, text |-> EmptyStr, v17 |-> << >>, v20 |-> << >>]

InitHandlers ==
  /\ fnIn \in [parts : HandlerParts, count : HandlerCounts,
               mode : { MODE_SEQUENTIAL, MODE_CARTESIAN }]
  /\ fnOut = NoPrompts
  /\ IdleRun

\* the handler of v1.7 and the generator of v2.0 for the mode
ApplyHandlers ==
  /\ ~fnOut.done
  /\ LET text == BuildTemplate(fnIn.parts.lits, fnIn.parts.bodies)
     IN  fnOut' = [done |-> TRUE,
                   text |-> text,
                   v17  |-> IF fnIn.mode = MODE_SEQUENTIAL
                              THEN handleSequentialMode(text, fnIn.count)
                            ELSE handleCartesianMode(text, fnIn.count),
                   v20  |-> IF fnIn.mode = MODE_SEQUENTIAL
                              THEN generateSequential(text, fnIn.count)
                            ELSE generateCartesian(text, fnIn.count)]
  /\ UNCHANGED << fnIn, runVars, cfgVars >>

NextHandlers == ApplyHandlers

SpecHandlers == InitHandlers /\ [][NextHandlers]_vars

(***************************************************************************)
(* The Minimal Apply script                                                *)
(*                                                                         *)
(* A configuration is a function from the keys it has to their values. A   *)
(* value is a record: a finite number (strength in hundredths), a value    *)
(* that Number.isFinite rejects, or a string.                              *)
(***************************************************************************)
JsFinite(n) == [type |-> "number", num |-> n, text |-> EmptyStr]

JsNotFinite == [type |-> "undefined", num |-> 0, text |-> EmptyStr]

JsText(t) == [type |-> "string", num |-> 0, text |-> t]

IsFinite(v) == v.type = "number"

Max(a, b) == IF a > b THEN a ELSE b

\* const candidates = ["negativePrompt","negative_prompt","negPrompt"]
NegCandidates == << "negativePrompt", "negative_prompt", "negPrompt" >>

ClarityKeys == { "steps", "strength", "shift" }

\* const negPreset = "blurry, low quality, ..."
NegPreset == JsText(<< "b", "l", "u", "r", "r", "y" >>)

\* const clarityMode = "mild"
ClarityMode == "mild"

\* cfg with key k set to v, the key added when cfg does not have it
AssignKey(cfg, k, v) ==
  [x \in DOMAIN cfg \cup { k } |-> IF x = k THEN v ELSE cfg[x]]

\* Object.assign(target, source)
ObjectAssign(target, source) ==
  [x \in DOMAIN target \cup DOMAIN source |->
     IF x \in DOMAIN source THEN source[x] ELSE target[x]]

\* the empty object {}
EmptyObject == [x \in {} |-> JsNotFinite]

\* getCfg(): the configuration through the accessor function, a copy of the
\* configuration object, or {} when there is neither (an accessor that throws
\* leaves a function, which is not an object)
getCfg(pipeline_) ==
  IF pipeline_.configurationKind = "fn"
    THEN [cfg |-> pipeline_.configuration, kind |-> "fn"]
  ELSE IF pipeline_.configurationKind = "obj"
    THEN [cfg |-> pipeline_.configuration, kind |-> "obj"]
  ELSE [cfg |-> EmptyObject, kind |-> "none"]

\* chooseNegKey(cfg): the first candidate that cfg has, else candidates[0]
chooseNegKey(cfg) ==
  IF \E c \in 1..Len(NegCandidates) : NegCandidates[c] \in DOMAIN cfg
    THEN NegCandidates[CHOOSE c \in 1..Len(NegCandidates) :
                         /\ NegCandidates[c] \in DOMAIN cfg
                         /\ \A d \in 1..(c - 1) : NegCandidates[d] \notin DOMAIN cfg]
  ELSE NegCandidates[1]

\* the value of key k when it is a finite number, else the default
CurrentOr(cfg, k, default) ==
  IF k \in DOMAIN cfg /\ IsFinite(cfg[k]) THEN cfg[k].num ELSE default

\* the steps, strength and shift that applyClarityInPlace computes
ClarityValues(cfg, mode) ==
  LET curSteps    == CurrentOr(cfg, "steps", 7)
      curStrength == CurrentOr(cfg, "strength", 40)
      curShift    == CurrentOr(cfg, "shift", 6)
  IN  IF mode = "mild"
        THEN [steps    |-> Max(curSteps, 8),
              strength |-> Min(curStrength, 35),
              shift    |-> Max(3, curShift - 1)]
      ELSE IF mode = "strong"
        THEN [steps    |-> 10,
              strength |-> Min(curStrength, 30),
              shift    |-> Min(Max(IF curShift >= 6 THEN 5 ELSE curShift, 4), 6)]
      ELSE [steps |-> curSteps, strength |-> curStrength, shift |-> curShift]

\* applyClarityInPlace(cfg, mode): each of the three keys is written only when
\* cfg has it
applyClarityInPlace(cfg, mode) ==
  LET applied == ClarityValues(cfg, mode)
  IN  [cfg     |-> [x \in DOMAIN cfg |->
                      IF x \in ClarityKeys THEN JsFinite(applied[x]) ELSE cfg[x]],
       applied |-> applied]

\* setCfg(newCfg, kind): through the setter, else merged into the configuration
\* object, else nothing
setCfg(pipeline_, newCfg, kind) ==
  IF pipeline_.setter = "works"
    THEN [how |-> "setConfiguration()", configuration |-> newCfg]
  ELSE IF kind = "obj"
    THEN [how |-> "Object.assign",
          configuration |-> ObjectAssign(pipeline_.configuration, newCfg)]
  ELSE [how |-> "no-op", configuration |-> pipeline_.configuration]

\* the configurations of the host: each key absent or with one of its values
NegValues == { JsText(<< "o", "l", "d" >>) }

StepsValues == { JsFinite(5), JsFinite(20), JsNotFinite }

StrengthValues == { JsFinite(20), JsFinite(60) }

ShiftValues == { JsFinite(2), JsFinite(7) }

ValuesOfKey(k) ==
  IF k = "steps" THEN StepsValues
  ELSE IF k = "strength" THEN StrengthValues
  ELSE IF k = "shift" THEN ShiftValues
  ELSE NegValues

ApplyKeys == { NegCandidates[c] : c \in 1..Len(NegCandidates) } \cup ClarityKeys

ApplyValues == NegValues \cup StepsValues \cup StrengthValues \cup ShiftValues

ApplyConfigurations ==
  UNION { { cfg \in [K -> ApplyValues] : \A k \in K : cfg[k] \in ValuesOfKey(k) }
          : K \in SUBSET ApplyKeys }

\* pipeline.configuration is a function, a function that throws, an object or
\* missing; pipeline.setConfiguration works, throws or is missing
Pipelines ==
  [configuration     : ApplyConfigurations,
   configurationKind : { "fn", "fnThrows", "obj", "none" },
   setter            : { "works", "throws", "none" }]

NoApply == [pc |-> "start", read |-> EmptyObject, kind |-> "none",
            cfg |-> EmptyObject, negKey |-> EmptyStr,
            applied |-> [steps |-> 0, strength |-> 0, shift |-> 0],
            how |-> EmptyStr, configuration |-> EmptyObject]

InitApply ==
  /\ fnIn \in Pipelines
  /\ fnOut = NoApply
  /\ IdleRun

\* const { cfg, kind } = await getCfg()
ApplyGetCfg ==
  /\ fnOut.pc = "start"
  /\ LET got == getCfg(fnIn)
     IN  fnOut' = [fnOut EXCEPT !.pc = "got", !.read = got.cfg, !.cfg = got.cfg,
                                !.kind = got.kind,
                                !.configuration = fnIn.configuration]
  /\ UNCHANGED << fnIn, runVars, cfgVars >>

\* const negKey = chooseNegKey(cfg); cfg[negKey] = negPreset;
\* const applied = applyClarityInPlace(cfg, clarityMode)
ApplyPreset ==
  /\ fnOut.pc = "got"
  /\ LET negKey  == chooseNegKey(fnOut.cfg)
         clarity == applyClarityInPlace(AssignKey(fnOut.cfg, negKey, NegPreset),
                                        ClarityMode)
     IN  fnOut' = [fnOut EXCEPT !.pc = "applied", !.negKey = negKey,
                                !.cfg = clarity.cfg, !.applied = clarity.applied]
  /\ UNCHANGED << fnIn, runVars, cfgVars >>

\* const how = await setCfg(cfg, kind)
ApplySetCfg ==
  /\ fnOut.pc = "applied"
  /\ LET set == setCfg(fnIn, fnOut.cfg, fnOut.kind)
     IN  fnOut' = [fnOut EXCEPT !.pc = "done", !.how = set.how,
                                !.configuration = set.configuration]
  /\ UNCHANGED << fnIn, runVars, cfgVars >>

NextApply == ApplyGetCfg \/ ApplyPreset \/ ApplySetCfg

SpecApply == InitApply /\ [][NextApply]_vars

(***************************************************************************)
(* The Safe-Mode v3 script: main, its render call and the progress loop    *)
(* started beside it. Time is the time left on the loop's timer and the    *)
(* time since the last progress line, both in milliseconds.                *)
(***************************************************************************)
\* const LOG_INTERVAL_MS = 500
LOG_INTERVAL_MS == 500

\* const AUTO_RENDER = true
AUTO_RENDER == TRUE

\* the time a clock tick takes
TickMs == LOG_INTERVAL_MS \div TicksPerInterval

\* pipeline.configuration is an object or not; pipeline.run is a function or not
SafeModePipelines == [configurationIsObject : BOOLEAN, runIsFunction : BOOLEAN]

\* main before its first statement; no ctx and no progress loop yet
SafeModeStart ==
  [pc |-> "start", running |-> FALSE, loop |-> "none", remaining |-> 0,
   sinceLine |-> 0, lines |-> 0, error |-> FALSE]

InitSafeMode ==
  /\ fnIn \in SafeModePipelines
  /\ fnOut = SafeModeStart
  /\ IdleRun

\* main up to the write-back: without a configuration object it logs and
\* returns, else it applies the negative prompt and the clarity values
SafeModeApply ==
  /\ fnOut.pc = "start"
  /\ fnOut' = [fnOut EXCEPT !.pc = IF fnIn.configurationIsObject THEN "applied"
                                   ELSE "unavailable"]
  /\ UNCHANGED << fnIn, runVars, cfgVars >>

\* if (AUTO_RENDER && typeof pipeline.run === "function") is false: main ends
SafeModeNoRender ==
  /\ fnOut.pc = "applied"
  /\ ~(AUTO_RENDER /\ fnIn.runIsFunction)
  /\ fnOut' = [fnOut EXCEPT !.pc = "finished"]
  /\ UNCHANGED << fnIn, runVars, cfgVars >>

\* const ctx = { running: true, ... }; logProgressLoop(ctx), which runs up to its
\* first await: the while test, one progress line, sleep(LOG_INTERVAL_MS); then
\* pipeline.run() is called
SafeModeStartRender ==
  /\ fnOut.pc = "applied"
  /\ AUTO_RENDER /\ fnIn.runIsFunction
  /\ fnOut' = [fnOut EXCEPT !.pc = "rendering", !.running = TRUE,
                            !.loop = "sleeping", !.remaining = LOG_INTERVAL_MS,
                            !.sinceLine = 0, !.lines = 1]
  /\ UNCHANGED << fnIn, runVars, cfgVars >>

\* await pipeline.run() returns
RenderReturns ==
  /\ fnOut.pc = "rendering"
  /\ fnOut' = [fnOut EXCEPT !.pc = "settled"]
  /\ UNCHANGED << fnIn, runVars, cfgVars >>

\* await pipeline.run() throws
RenderThrows ==
  /\ fnOut.pc = "rendering"
  /\ fnOut' = [fnOut EXCEPT !.pc = "settled", !.error = TRUE]
  /\ UNCHANGED << fnIn, runVars, cfgVars >>

\* the finally block without ctx.running = false
RenderFinallyLeavesRunning ==
  /\ fnOut.pc = "settled"
  /\ fnOut' = [fnOut EXCEPT !.pc = IF fnOut.error THEN "caught" ELSE "finished"]
  /\ UNCHANGED << fnIn, runVars, cfgVars >>

\* finally { ctx.running = false; await logUI("Render finished.") }, and the
\* catch block of main after a throw
RenderFinally ==
  /\ fnOut.pc = "settled"
  /\ fnOut' = [fnOut EXCEPT !.pc = IF fnOut.error THEN "caught" ELSE "finished",
                            !.running = FALSE]
  /\ UNCHANGED << fnIn, runVars, cfgVars >>

\* time passes: the timer of sleep runs down and the last line gets older
SafeModeTick ==
  /\ fnOut.loop = "sleeping"
  /\ fnOut.remaining > 0 \/ fnOut.sinceLine < LOG_INTERVAL_MS
  /\ fnOut' = [fnOut EXCEPT !.remaining = Max(0, fnOut.remaining - TickMs),
                            !.sinceLine = Min(LOG_INTERVAL_MS, fnOut.sinceLine + TickMs)]
  /\ UNCHANGED << fnIn, runVars, cfgVars >>

\* the timer of await sleep(LOG_INTERVAL_MS) has fired and while (ctx.running)
\* holds: the next progress line, then sleep again
LoopLogs ==
  /\ fnOut.loop = "sleeping"
  /\ fnOut.remaining = 0
  /\ fnOut.running
  /\ fnOut.lines < MaxLines
  /\ fnOut' = [fnOut EXCEPT !.lines = fnOut.lines + 1, !.sinceLine = 0,
                            !.remaining = LOG_INTERVAL_MS]
  /\ UNCHANGED << fnIn, runVars, cfgVars >>

\* the timer has fired and while (ctx.running) fails: logProgressLoop returns
LoopExits ==
  /\ fnOut.loop = "sleeping"
  /\ fnOut.remaining = 0
  /\ ~fnOut.running
  /\ fnOut' = [fnOut EXCEPT !.loop = "exited"]
  /\ UNCHANGED << fnIn, runVars, cfgVars >>

NextSafeMode ==
  \/ SafeModeApply \/ SafeModeNoRender \/ SafeModeStartRender
  \/ RenderReturns \/ RenderThrows \/ RenderFinally
  \/ SafeModeTick \/ LoopLogs \/ LoopExits

\* main goes on after its awaits, time passes and a timer that has run down
\* fires; whether and when pipeline.run settles is left to the host
SpecSafeMode ==
  /\ InitSafeMode
  /\ [][NextSafeMode]_vars
  /\ WF_vars(SafeModeApply \/ SafeModeNoRender \/ SafeModeStartRender \/ RenderFinally)
  /\ WF_vars(SafeModeTick)
  /\ WF_vars(LoopLogs \/ LoopExits)

(***************************************************************************)
(* The run of v2.0 with its steps taken: the statements of the script are  *)
(* executed one after the other, and a call of pipeline.run returns or     *)
(* throws                                                                  *)
(***************************************************************************)
\* the steps of the generators' loops
LoopStep == Prepare \/ Invoke \/ Complete

\* pipeline.run returns or throws
CallSettles == Return \/ Throw

\* main and runTestMode run on: Main can be taken whenever pc = "ui" and
\* TestRest whenever pc = "posttest", and each leaves that position, so weak
\* fairness of the two is that the run is not at either position for ever
MainRunsOn == []<>(pc # "ui") /\ []<>(pc # "posttest")

UserInputsLive ==
  [ text : { TplXyzPq, TplPlain, TplNoOption }, count : { 0, 2, MaxRequested, 9999 },
    useMax : BOOLEAN, useSameSeed : { FALSE }, debugEnabled : { FALSE },
    mode : Modes ]
  \cup [ text : { TplManyCombinations }, count : { 9999 }, useMax : BOOLEAN,
         useSameSeed : { FALSE }, debugEnabled : { FALSE },
         mode : { MODE_CARTESIAN } ]

InitLive ==
  /\ userInput \in UserInputsLive
  /\ hostConfiguration = DefaultConfiguration
  /\ FreshRun

SpecLive ==
  InitLive /\ [][Next]_vars /\ WF_vars(LoopStep) /\ WF_vars(CallSettles) /\ MainRunsOn

(***************************************************************************)
(* Properties                                                              *)
(***************************************************************************)
\* the product of the group sizes of an options list
TotalCombinations(lists) == Product([g \in 1..Len(lists) |-> Len(lists[g])])

RECURSIVE SizeAfter(_, _)
\* the product of the sizes of the groups after group g
SizeAfter(lists, g) ==
  IF g >= Len(lists) THEN 1 ELSE Len(lists[g + 1]) * SizeAfter(lists, g + 1)

\* entry number k (1-based) of the cartesian product in lexicographic order, the
\* last group varying fastest: the digits of k - 1 in the mixed radix of the sizes
KthCombination(lists, k) ==
  [g \in 1..Len(lists) |->
     lists[g][(((k - 1) \div SizeAfter(lists, g)) % Len(lists[g])) + 1]]

\* the prompts of the example "a {red|blue} {cat|dog}"
RedCatPrompts ==
  << << "a", " ", "r", "e", "d", " ", "c", "a", "t" >>,
     << "a", " ", "r", "e", "d", " ", "d", "o", "g" >>,
     << "a", " ", "b", "l", "u", "e", " ", "c", "a", "t" >>,
     << "a", " ", "b", "l", "u", "e", " ", "d", "o", "g" >> >>

C2_PreviewIsPrefixOfProduct ==
  fnOut.done =>
    fnOut.preview = SubSeq(fnOut.product, 1,
                           Min(fnIn.limit, TotalCombinations(fnIn.lists)))

\* the same for every case but the empty options list with limit 0
C2_PreviewIsPrefixUnlessEmptyAndZero ==
  (fnOut.done /\ ~(fnIn.lists = << >> /\ fnIn.limit = 0)) =>
    fnOut.preview = SubSeq(fnOut.product, 1,
                           Min(fnIn.limit, TotalCombinations(fnIn.lists)))

\* the use-max step of main replaces the requested count by the total
UseMaxApplies ==
  LET maxCombos == calculateMaxCombinations(Trim(userInput.text))
  IN  userInput.useMax /\ JsGreater(maxCombos, 0) /\ JsAtMost(maxCombos, MAX_BATCH_COUNT)

\* main went past its wildcard validation
PromptAccepted == pc \notin { "ui", "nowild" }

\* C3 as stated: the calls never exceed the cap, and every requested count above
\* the cap is reduced to the cap with a warning, the run proceeding.
C3_AboveCapAlwaysReducedToCap ==
  /\ started <= MAX_BATCH_COUNT
  /\ (PromptAccepted /\ userInput.count > MAX_BATCH_COUNT) =>
       batchCount = MAX_BATCH_COUNT /\ warned /\ pc # "invalid"

\* C3: the calls never exceed the cap in any mode; a requested count above the
\* cap is reduced to the cap with a warning and the run proceeds, unless use-max
\* is on and the template's total T is in 1..cap: then the count is T and no
\* warning is emitted.
C3_CapEnforced ==
  /\ completed <= started
  /\ started <= MAX_BATCH_COUNT
  /\ PromptAccepted => batchCount <= MAX_BATCH_COUNT
  /\ (PromptAccepted /\ userInput.count > MAX_BATCH_COUNT /\ ~UseMaxApplies) =>
       batchCount = MAX_BATCH_COUNT /\ warned /\ pc # "invalid"
  /\ (PromptAccepted /\ UseMaxApplies) =>
       /\ JsNumber(batchCount) = calculateMaxCombinations(Trim(userInput.text))
       /\ ~warned
       /\ pc # "invalid"

\* a request of 9999 has run to completion with exactly cap calls
C3_Witness ==
  /\ userInput.count = 9999
  /\ pc = "done"
  /\ warned
  /\ batchCount = MAX_BATCH_COUNT
  /\ completed = MAX_BATCH_COUNT

\* C4: when the generation call of iteration k throws, the run ends at once with
\* the error dialog showing the failure's message; calls 1..k-1 stay completed,
\* call k is not made again and no later call is made.
C4_FailureStopsRun ==
  [][ /\ (failedAt' # failedAt) =>
           /\ failedAt = 0
           /\ failedAt' = started
           /\ started' = started
           /\ completed' = completed
           /\ completed = started - 1
           /\ pc' = "error"
           /\ report' = ErrorDialog(GenerationError)
      /\ (failedAt # 0 \/ pc = "error") =>
           /\ started' = started
           /\ completed' = completed
           /\ failedAt' = failedAt
           /\ report' = report
           /\ pc' = pc
      /\ (pc = "running" /\ started' = started /\ completed' = completed) =>
           failedAt' = started
    ]_vars

\* the third call of a run has thrown after two completed calls
C4_Witness ==
  /\ pc = "error"
  /\ failedAt = 3
  /\ completed = 2
  /\ started = 3
  /\ report.msg = GenerationError

\* C5: when the generation call of iteration k of a generator has thrown (the
\* template having a group), the run reports a completed count of k - 1.
C5_FailureReportsCompletedCount ==
  ( /\ userInput.mode # MODE_TEST
    /\ Len(extractWildcardGroups(promptText)) > 0
    /\ failedAt # 0 ) =>
     report.kind = "error" /\ report.count = failedAt - 1

\* a run is over
Terminal == { "nowild", "invalid", "done", "error" }

\* C6: in Random, Sequential and Cartesian mode (with a count in 1..cap) a
\* template in which the parser finds no group makes no generation call and ends
\* in the no-wildcards dialog.
C6_NoGroupNoDispatch ==
  ( /\ userInput.mode # MODE_TEST
    /\ userInput.count >= 1 /\ userInput.count <= MAX_BATCH_COUNT
    /\ Len(extractWildcardGroups(Trim(userInput.text))) = 0 )
  => /\ started = 0
     /\ pc \in Terminal => pc = "nowild" /\ report = NoWildcardsDialog

CycledOption(opts, index) ==
  IF Len(opts) = 0 THEN EmptyStr ELSE opts[(index % Len(opts)) + 1]

\* the prompts of the example "{x|y|z}" with count 5
XyzPrompts == << << "x" >>, << "y" >>, << "z" >>, << "x" >>, << "y" >> >>

\* C8: in Sequential mode the call of iteration i (0-based) has the prompt in
\* which group g is replaced by options[g][i mod size(g)], and by the empty
\* string when the group has no option; "{x|y|z}" with count 5 gives x, y, z, x, y.
C8_SequentialCycling ==
  userInput.mode = MODE_SEQUENTIAL =>
    LET lists == getAllOptions(promptText)
    IN  /\ started >= 1 =>
             lastPrompt = applyValuesToPrompt(promptText,
                            [g \in 1..Len(lists) |-> CycledOption(lists[g], started - 1)])
        /\ pc \in { "call", "running" } =>
             /\ Len(selectedValues) = Len(lists)
             /\ \A g \in 1..Len(lists) :
                  OrEmpty(selectedValues[g]) = CycledOption(lists[g], i)
        /\ (userInput.text = TplXyz /\ batchCount = 5) =>
             /\ started <= 5
             /\ started >= 1 => lastPrompt = XyzPrompts[started]
             /\ pc = "done" => completed = 5

\* the Sequential run of the example has completed, its fifth prompt being y
C8_Witness ==
  /\ userInput.mode = MODE_SEQUENTIAL
  /\ userInput.text = TplXyz
  /\ batchCount = 5
  /\ pc = "done"
  /\ completed = 5
  /\ lastPrompt = << "y" >>

\* the substitution sets of an options list, a group without option standing for
\* the empty string
SubstitutionSets(lists) ==
  LET filled == [g \in 1..Len(lists) |->
                   IF Len(lists[g]) = 0 THEN << EmptyStr >> ELSE lists[g]]
      all    == computeCartesianProduct(filled)
  IN  { all[k] : k \in 1..Len(all) }

C10_ReportedCountIsCallsMade ==
  (pc = "done" /\ userInput.mode # MODE_TEST) =>
     /\ report.kind = "complete"
     /\ report.count = completed
     /\ report.count # batchCount =>
          /\ userInput.mode = MODE_CARTESIAN
          /\ TotalCombinations(getAllOptions(promptText)) < batchCount

\* the same for the templates in which the parser finds a group
C10_ReportedCountWithGroups ==
  (pc = "done" /\ userInput.mode # MODE_TEST /\ Len(getAllOptions(promptText)) > 0) =>
     /\ report.kind = "complete"
     /\ report.count = completed
     /\ report.count # batchCount =>
          /\ userInput.mode = MODE_CARTESIAN
          /\ TotalCombinations(getAllOptions(promptText)) < batchCount

\* the number of pipe-separated pieces of each body
PieceCounts(bodies) ==
  [g \in 1..Len(bodies) |->
     1 + Cardinality({ k \in 1..Len(bodies[g]) : bodies[g][k] = "|" })]

\* C11: the total number of combinations of a template is the product of the
\* sizes of its groups, 1 for a template without group; "{a}{b|c}{d|e|f}" has 6.
C11_TotalIsProductOfSizes ==
  fnOut.done =>
    /\ fnOut.maxCombinations = JsNumber(Product(PieceCounts(fnIn.parts.bodies)))
    /\ fnIn.parts.bodies = << >> => fnOut.maxCombinations = JsNumber(1)
    /\ fnIn.parts = ThreeGroupParts => fnOut.maxCombinations = JsNumber(6)

\* the same for the templates that have a group, and for the count v1.7 shows
C11_TotalIsProductWithGroups ==
  fnOut.done =>
    /\ Len(fnIn.parts.bodies) >= 1 =>
         fnOut.maxCombinations = JsNumber(Product(PieceCounts(fnIn.parts.bodies)))
    /\ fnIn.parts = ThreeGroupParts => fnOut.maxCombinations = JsNumber(6)
    /\ fnOut.maxCombosV17 = JsNumber(Product(PieceCounts(fnIn.parts.bodies)))
    /\ fnIn.parts.bodies = << >> => fnOut.maxCombosV17 = JsNumber(1)

\* no entry of a sequence occurs twice in it
NoDuplicates(seq) == \A j, k \in 1..Len(seq) : j # k => seq[j] # seq[k]

\* C12 as stated: for every options list L the enumeration with limit
\* total(L) has total(L) entries and no entry twice.
C12_ExhaustiveNeverDuplicates ==
  fnOut.done =>
    /\ Len(fnOut.exhaustive) = TotalCombinations(fnIn.lists)
    /\ NoDuplicates(fnOut.exhaustive)

\* C12: for every options list L the enumeration with limit total(L) has
\* total(L) entries, and no entry twice when no group of L has an option twice.
C12_ExhaustiveNoDuplicates ==
  fnOut.done =>
    /\ Len(fnOut.exhaustive) = TotalCombinations(fnIn.lists)
    /\ (\A g \in 1..Len(fnIn.lists) : NoDuplicates(fnIn.lists[g])) =>
         NoDuplicates(fnOut.exhaustive)

\* the three groups a|b have been enumerated: 8 entries
C12_Witness ==
  /\ fnOut.done
  /\ fnIn.lists = << << << "a" >>, << "b" >> >>, << << "a" >>, << "b" >> >>,
                     << << "a" >>, << "b" >> >> >>
  /\ Len(fnOut.exhaustive) = 8
  /\ NoDuplicates(fnOut.exhaustive)

\* the effective count of C13: min(requested, cap, total)
EffectiveCartesianCount(requested, lists) ==
  Min(Min(requested, MAX_BATCH_COUNT), TotalCombinations(lists))

\* C13: in Cartesian mode, for a requested count of 1 or more (no use-max),
\* the substitution sets built never number more than min(requested, cap, total).
C13_NeverBuildsMoreThanCount ==
  ( /\ userInput.mode = MODE_CARTESIAN
    /\ ~userInput.useMax
    /\ userInput.count >= 1
    /\ pc # "ui" ) =>
     built <= EffectiveCartesianCount(userInput.count, optionsList)

\* the same with use-max on, the count being main's batchCount then
C13_NeverBuildsMoreThanBatchCount ==
  (userInput.mode = MODE_CARTESIAN /\ pc \notin { "ui", "nowild", "invalid" }) =>
     /\ built <= Min(batchCount, TotalCombinations(optionsList))
     /\ batchCount <= MAX_BATCH_COUNT
     /\ ~userInput.useMax => batchCount = Min(userInput.count, MAX_BATCH_COUNT)

\* the exact product of sizes (each from 1 to 31) in two limbs, up to the first
\* product of 2^53 or more, from which on over is set
ExactProduct(sizes) ==
  LET reduce[a \in [ total : [ hi : Nat, lo : Nat, over : BOOLEAN ], from : Nat, to : Nat ]] ==
        IF a.from > a.to \/ a.total.over THEN a.total
        ELSE IF a.from = a.to
        THEN LET low == a.total.lo * sizes[a.from]
                 hi  == a.total.hi * sizes[a.from] + low \div Limb
             IN  [hi |-> hi, lo |-> low % Limb, over |-> hi >= 2 * HiMin]
        ELSE reduce[[ total |-> reduce[[ total |-> a.total, from |-> a.from,
                                         to |-> (a.from + a.to) \div 2 ]],
                      from  |-> (a.from + a.to) \div 2 + 1,
                      to    |-> a.to ]]
  IN  reduce[[ total |-> [hi |-> 0, lo |-> 1, over |-> FALSE], from |-> 1, to |-> Len(sizes) ]]

\* the product of the group sizes of a template is 2^53 or more
ExceedsIntegerRange(text) ==
  LET lists == getAllOptions(text)
  IN  /\ Len(lists) > 0
      /\ \A g \in 1..Len(lists) : Len(lists[g]) > 0
      /\ ExactProduct([g \in 1..Len(lists) |-> Len(lists[g])]).over

\* C14: when the product of the group sizes exceeds the integers a Number
\* holds exactly, the total is reported as a condition that is no finite number,
\* and Cartesian mode builds and dispatches no more than the capped count.
C14_OverflowReportedDistinctly ==
  (pc # "ui" /\ ExceedsIntegerRange(promptText)) =>
     /\ calculateMaxCombinations(promptText).kind \notin { "int", "big" }
     /\ userInput.mode = MODE_CARTESIAN =>
          /\ built <= MAX_BATCH_COUNT
          /\ started <= built

\* the second half alone: Cartesian mode on such a template builds the prefix of
\* the capped count and dispatches no more
C14_BoundedPrefixOnOverflow ==
  ( /\ pc \notin { "ui", "invalid" }
    /\ userInput.mode = MODE_CARTESIAN
    /\ ExceedsIntegerRange(promptText) ) =>
     /\ batchCount = Min(userInput.count, MAX_BATCH_COUNT)
     /\ built = batchCount
     /\ Len(limitedCombinations) = batchCount
     /\ started <= built
     /\ pc = "done" => completed = batchCount

\* C15: for a template of n groups G1..Gn that are not nested, extractGroups
\* returns exactly the n bodies, each the text between the brackets of its
\* group, in the order of appearance; without a group it returns the empty list.
C15_ExtractReturnsBodiesInOrder ==
  fnOut.done =>
    /\ Len(fnOut.groups) = Len(fnIn.parts.bodies)
    /\ \A g \in 1..Len(fnIn.parts.bodies) : fnOut.groups[g] = fnIn.parts.bodies[g]
    /\ fnIn.parts.bodies = << >> => fnOut.groups = << >>

C15_Witness ==
  /\ fnOut.done
  /\ Len(fnIn.parts.bodies) = 2
  /\ fnIn.parts.bodies[1] # fnIn.parts.bodies[2]
  /\ fnIn.parts.lits[2] # EmptyStr
  /\ fnOut.groups = fnIn.parts.bodies

RECURSIVE Interleave(_, _, _)
\* the literals of a template with the value of position pos (0-based) in the
\* place of group pos + 1, the empty string where values has no such position
Interleave(lits, values, pos) ==
  IF Len(lits) = 1 THEN lits[1]
  ELSE lits[1] \o (IF pos < Len(values) THEN values[pos + 1] ELSE EmptyStr)
         \o Interleave(Tail(lits), values, pos + 1)

\* C16: substitute puts values[i] in the place of the i-th group from the left
\* in one pass (a value is not scanned again), leaves the text outside the
\* groups as it is, puts the empty string for every position from
\* length(values) on, and gives two groups of the same body each the value of
\* its own position.
C16_SubstituteIsPositional ==
  fnOut.done => fnOut.substituted = Interleave(fnIn.parts.lits, fnIn.values, 0)

C16_Witness ==
  /\ fnOut.done
  /\ Len(fnIn.parts.bodies) = 2
  /\ fnIn.parts.bodies[1] = fnIn.parts.bodies[2]
  /\ fnIn.parts.lits[2] # EmptyStr
  /\ fnIn.values = << << "{", "y", "}" >> >>
  /\ fnOut.substituted =
       fnIn.parts.lits[1] \o << "{", "y", "}" >> \o fnIn.parts.lits[2] \o fnIn.parts.lits[3]

\* the position of pipe number k of a body, 0 for k = 0 and Len(body) + 1 for
\* the pipe after the last
PipeAt(body, k) ==
  IF k = 0 THEN 0
  ELSE IF k > Cardinality({ q \in 1..Len(body) : body[q] = "|" }) THEN Len(body) + 1
  ELSE CHOOSE p \in 1..Len(body) :
         body[p] = "|" /\ Cardinality({ q \in 1..p : body[q] = "|" }) = k

\* the pieces of a body between its pipes, in order, without surrounding blanks
TrimmedPieces(body) ==
  [ k \in 1..(Cardinality({ q \in 1..Len(body) : body[q] = "|" }) + 1) |->
      Trim(SubSeq(body, PipeAt(body, k - 1) + 1, PipeAt(body, k) - 1)) ]

\* options is what the claim says of splitOptions(body)
SplitsAsSpecified(body, options) ==
  /\ options = SelectSeq(TrimmedPieces(body), LAMBDA piece : piece # EmptyStr)
  /\ \A k \in 1..Len(options) : options[k] # EmptyStr
  /\ (~Includes(body, "|") /\ Trim(body) # EmptyStr) => options = << Trim(body) >>
  /\ (\A k \in 1..Len(TrimmedPieces(body)) : TrimmedPieces(body)[k] = EmptyStr)
       => options = << >>

\* C17: splitOptions returns the pieces of a body between its pipes in order,
\* each trimmed, without the pieces that are empty once trimmed: no empty string
\* is in the result, a body without pipe gives one element, a body of empty
\* pieces gives the empty list (in v2.0 and in v1.7).
C17_SplitTrimsAndDropsEmpty ==
  fnOut.done =>
    /\ SplitsAsSpecified(fnIn.body, fnOut.options)
    /\ SplitsAsSpecified(fnIn.body, fnOut.optionsV17)

\* the same of v2.0 alone
C17_SplitTrimsAndDropsEmptyV20 ==
  fnOut.done => SplitsAsSpecified(fnIn.body, fnOut.options)

\* C18: splitting the pipe-join of splitOptions(x) gives splitOptions(x) again,
\* for every body x (in v2.0 and in v1.7).
C18_NormalizationIdempotent ==
  fnOut.done =>
    /\ fnOut.again = fnOut.options
    /\ fnOut.againV17 = fnOut.optionsV17

C18_Witness ==
  /\ fnOut.done
  /\ fnIn.body = << " ", "a", "|", "|", "b" >>
  /\ fnOut.options = << << "a" >>, << "b" >> >>
  /\ fnOut.again = fnOut.options
  /\ fnOut.optionsV17 = << << "a" >>, EmptyStr, << "b" >> >>
  /\ fnOut.againV17 = fnOut.optionsV17

\* C19: in Random and Sequential mode a run without failure makes exactly
\* min(requested, cap) generation calls, whatever the total number of
\* combinations of the template; only Cartesian mode reduces the count to the
\* total.
C19_CountIndependentOfTotal ==
  ( /\ pc = "done"
    /\ userInput.mode \in { MODE_RANDOM, MODE_SEQUENTIAL } ) =>
     completed = Min(userInput.count, MAX_BATCH_COUNT)

\* the same of the runs that do not ask for the maximum
C19_CountIndependentOfTotalWithoutUseMax ==
  ( /\ pc = "done"
    /\ userInput.mode \in { MODE_RANDOM, MODE_SEQUENTIAL }
    /\ ~userInput.useMax ) =>
     completed = Min(userInput.count, MAX_BATCH_COUNT)

\* C20: with use-max on in Cartesian mode and a total T of the template with
\* 1 <= T <= cap, a run without failure makes exactly T generation calls
\* whatever the requested count; with T above the cap the requested count stays
\* in force, limited by the cap.
C20_UseMaxRunsWholeProduct ==
  LET T == calculateMaxCombinations(promptText)
  IN  ( /\ userInput.mode = MODE_CARTESIAN
        /\ userInput.useMax
        /\ pc \notin { "ui", "nowild" } ) =>
         /\ (JsGreater(T, 0) /\ JsAtMost(T, MAX_BATCH_COUNT)) =>
              /\ JsNumber(batchCount) = T
              /\ pc # "invalid"
              /\ pc = "done" => completed = T.int
         /\ JsGreater(T, MAX_BATCH_COUNT) =>
              /\ batchCount = Min(userInput.count, MAX_BATCH_COUNT)
              /\ pc = "done" => completed = Min(userInput.count, MAX_BATCH_COUNT)

\* a request of 1 with use-max on has made the 6 calls of "{x|y|z} {p|q}"
C20_Witness ==
  /\ userInput.mode = MODE_CARTESIAN
  /\ userInput.useMax
  /\ userInput.count = 1
  /\ userInput.text = TplXyzPq
  /\ pc = "done"
  /\ completed = 6

\* C21 as stated: a requested count below 1 is reported as invalid and the run
\* makes no generation call, in every mode.
C21_BelowOneAlwaysInvalid ==
  (pc # "ui" /\ userInput.count < 1) =>
     /\ pc = "invalid"
     /\ report = InvalidCountLine(userInput.count)
     /\ started = 0

\* C21: for a prompt that passed the wildcard check, a count that is still below
\* 1 after flooring, the use-max step and the cap is reported as invalid and the
\* run makes no generation call, in every mode.
C21_BelowOneInvalid ==
  /\ (PromptAccepted /\ userInput.count < 1 /\ ~UseMaxApplies) =>
       /\ pc = "invalid"
       /\ batchCount = userInput.count
       /\ report = InvalidCountLine(userInput.count)
       /\ started = 0
  /\ (PromptAccepted /\ batchCount < 1) => pc = "invalid" /\ started = 0

\* a Sequential run asked for 0 images has ended with the invalid-count line
C21_Witness ==
  /\ userInput.mode = MODE_SEQUENTIAL
  /\ userInput.count = 0
  /\ userInput.text = TplXyz
  /\ pc = "invalid"
  /\ report = InvalidCountLine(0)
  /\ started = 0

\* C22: every error of a run (a generation call that fails, a self-test check
\* that fails, an invalid input) is caught at the boundary of main and reported:
\* no exception leaves main, and no call is made again or after a failure.
C22_NoErrorEscapesMain ==
  /\ pc # "crashed"
  /\ failedAt # 0 =>
       /\ pc = "error"
       /\ report = ErrorDialog(GenerationError)
       /\ started = failedAt
       /\ completed = failedAt - 1
  /\ pc = "error" => report.kind = "error" /\ report.msg # ""
  /\ pc = "invalid" => report.kind = "invalid"
  /\ pc = "nowild" => report.kind = "nowild"

\* C23: every generation call of a run gets the configuration of the host as it
\* was at the start of the run, equal in every field and the same in all
\* iterations, and the run writes no field of the host's configuration object.
C23_ConfigurationPassedUnmodified ==
  [][ /\ hostConfiguration' = hostConfiguration
      /\ (started' # started) =>
           /\ sentConfig' = hostConfiguration
           /\ started >= 1 => sentConfig' = sentConfig
    ]_vars

\* what holds of the configuration: every call gets the copy main made, which
\* is the host's configuration with the seed -1 unless the same-seed switch is
\* on, the same in all iterations, and the host's object is not written
C23_ConfigurationIsSeededCopy ==
  [][ /\ hostConfiguration' = hostConfiguration
      /\ (started' # started) =>
           /\ sentConfig' = IF userInput.useSameSeed THEN hostConfiguration
                            ELSE [hostConfiguration EXCEPT !.seed = -1]
           /\ started >= 1 => sentConfig' = sentConfig
    ]_vars

\* the six checks of the self-test hold of the parser and the enumerators
SelfTestChecksHold ==
  LET multiOptions == getAllOptions(multiPrompt)
  IN  /\ extractWildcardGroups(testPrompt) = << << "o", "n", "e", "|", "t", "w", "o" >> >>
      /\ splitOptions(<< "o", "n", "e", "|", "t", "w", "o" >>)
           = << << "o", "n", "e" >>, << "t", "w", "o" >> >>
      /\ Len(extractWildcardGroups(multiPrompt)) = 2
      /\ calculateMaxCombinations(multiPrompt) = JsNumber(6)
      /\ Len(computeCartesianProduct(multiOptions)) = 6
      /\ Len(computeCartesianPreview(multiOptions, PREVIEW_COUNT)) = 3

\* a self-test run whose call did not fail has ended in the success state
SelfTestSucceeded ==
  /\ pc = "done"
  /\ report = showCompletionDialog(MODE_TEST, batchCount, 1)
  /\ completed = 1
  /\ lastPrompt = << "TEST MODE SUCCESS: ", "s", "m", "o", "k", "e", " ", "o", "n", "e" >>
  /\ built = 6 + PREVIEW_COUNT

\* C24: a run in SelfTest mode passes every check in order (one group of body
\* "one|two"; options one, two; two groups in "a {red|blue} {cat|dog|fox}"; 6
\* combinations; a full product of 6; a bounded preview of 3) and ends in the
\* success state; a failing check would end the run with an error naming it.
C24_SelfTestPasses ==
  ( /\ userInput.mode = MODE_TEST
    /\ userInput.count >= 1 ) =>
     /\ SelfTestChecksHold
     /\ (pc \in Terminal /\ failedAt = 0) => SelfTestSucceeded
     /\ (pc = "error" /\ failedAt = 0) => report.msg \in { TestChecksBefore, TestChecksAfter }

\* the same of the runs whose prompt field is not blank
C24_SelfTestPassesWithPrompt ==
  ( /\ userInput.mode = MODE_TEST
    /\ userInput.count >= 1
    /\ Trim(userInput.text) # EmptyStr ) =>
     /\ SelfTestChecksHold
     /\ (pc \in Terminal /\ failedAt = 0) => SelfTestSucceeded
     /\ (pc = "error" /\ failedAt = 0) => report.msg \in { TestChecksBefore, TestChecksAfter }

\* the number of calls of a run without failure, from the template, the
\* requested count, the use-max switch and the mode alone
CallsOfRun(text, requested, useMaxCount, modeIndex) ==
  LET lists   == getAllOptions(Trim(text))
      T       == TotalCombinations(lists)
      planned == IF useMaxCount /\ Len(lists) > 0 /\ T >= 1 /\ T <= MAX_BATCH_COUNT
                 THEN T ELSE Min(requested, MAX_BATCH_COUNT)
  IN  IF ~Includes(Trim(text), "{") \/ planned < 1 THEN 0
      ELSE IF modeIndex = MODE_CARTESIAN THEN Min(planned, T)
      ELSE planned

\* the prompt of call k of a Sequential or Cartesian run, from the template and
\* the mode alone
PromptOfCall(text, modeIndex, k) ==
  LET lists == getAllOptions(Trim(text))
  IN  applyValuesToPrompt(Trim(text),
        IF modeIndex = MODE_CARTESIAN THEN KthCombination(lists, k)
        ELSE [g \in 1..Len(lists) |-> CycledOption(lists[g], k - 1)])

\* C25: the debug-logging switch has no effect on control flow: in Sequential
\* and Cartesian mode the calls of a run, their prompts and their configuration
\* are those given by the template, the requested count, the use-max switch, the
\* mode, the same-seed switch and the host's configuration alone, so two runs
\* that differ in the debug switch only make the same calls.
C25_DebugSwitchHasNoEffect ==
  userInput.mode \in { MODE_SEQUENTIAL, MODE_CARTESIAN } =>
    LET calls == CallsOfRun(userInput.text, userInput.count, userInput.useMax,
                            userInput.mode)
    IN  /\ started <= calls
        /\ started >= 1 =>
             /\ lastPrompt = PromptOfCall(userInput.text, userInput.mode, started)
             /\ sentConfig = IF userInput.useSameSeed THEN hostConfiguration
                             ELSE [hostConfiguration EXCEPT !.seed = -1]
        /\ (pc \in Terminal /\ failedAt = 0) => completed = calls
        /\ failedAt # 0 => pc = "error" /\ started = failedAt

\* a Cartesian run with debug logging on has written [DEBUG] lines and made the
\* six calls of "{x|y|z} {p|q}"
C25_Witness ==
  /\ userInput.mode = MODE_CARTESIAN
  /\ userInput.debugEnabled
  /\ userInput.text = TplXyzPq
  /\ userInput.count = MaxRequested
  /\ userInput.useMax
  /\ debugLines = 3 + 3 * 6
  /\ pc = "done"
  /\ completed = 6

\* C26: the configuration the Minimal Apply script writes back has exactly the
\* keys of the configuration it read: the negative prompt and the clarity values
\* go to keys that exist already and no key is added.
C26_WritesOnlyExistingKeys ==
  (fnOut.pc = "done" /\ fnOut.how # "no-op") =>
    /\ DOMAIN fnOut.cfg = DOMAIN fnOut.read
    /\ DOMAIN fnOut.configuration = DOMAIN fnOut.read

\* the clarity values go to existing keys only, and the one key that can be
\* added is the negative-prompt key chosen
C26_OnlyNegativeKeyAdded ==
  fnOut.pc \in { "applied", "done" } =>
    /\ DOMAIN fnOut.cfg = DOMAIN fnOut.read \cup { fnOut.negKey }
    /\ fnOut.cfg[fnOut.negKey] = NegPreset
    /\ \A k \in DOMAIN fnOut.read \ (ClarityKeys \cup { fnOut.negKey }) :
         fnOut.cfg[k] = fnOut.read[k]
    /\ \A k \in ClarityKeys \cap DOMAIN fnOut.read :
         fnOut.cfg[k] = JsFinite(fnOut.applied[k])

BraceFree(t) == ~Includes(t, "{") /\ ~Includes(t, "}")

\* C27: a prompt with its groups replaced has no wildcard group left: for every
\* template and every vector of brace-free values with at least one value per
\* group, extractWildcardGroups(applyValuesToPrompt(template, values)) is empty.
C27_SubstitutedHasNoGroups ==
  ( /\ fnOut.done
    /\ Len(fnIn.values) >= Len(fnOut.groups)
    /\ \A v \in 1..Len(fnIn.values) : BraceFree(fnIn.values[v]) )
  => extractWildcardGroups(fnOut.substituted) = << >>

\* with brace-free text between the groups as well, no group is left
C27_NoGroupsWithoutStrayBraces ==
  ( /\ fnOut.done
    /\ Len(fnIn.values) >= Len(fnOut.groups)
    /\ \A v \in 1..Len(fnIn.values) : BraceFree(fnIn.values[v])
    /\ \A l \in 1..Len(fnIn.parts.lits) : BraceFree(fnIn.parts.lits[l]) )
  => extractWildcardGroups(fnOut.substituted) = << >>

\* no group of the template has a piece that is empty after trimming
NoEmptyPiece(text) ==
  LET pieces == getAllOptionsV17(text)
  IN  \A g \in 1..Len(pieces) : \A o \in 1..Len(pieces[g]) : pieces[g][o] # EmptyStr

\* C28: for a template whose groups have no piece that is empty after trimming
\* and a count from 1 to 100, the v1.7 handler and the v2.0 generator run the
\* same prompts in the same order, in Sequential mode and in Cartesian mode.
C28_VersionsAgree ==
  ( /\ fnOut.done
    /\ fnIn.count >= 1
    /\ fnIn.count <= SLIDER_MAX_V17
    /\ NoEmptyPiece(fnOut.text) )
  => fnOut.v17 = fnOut.v20

\* "{b|c}a {d|e|f}" in Cartesian mode with count 4: both versions have run the
\* first four of the six combinations
C28_Witness ==
  /\ fnOut.done
  /\ fnIn.mode = MODE_CARTESIAN
  /\ fnIn.count = 4
  /\ NoEmptyPiece(fnOut.text)
  /\ fnOut.text = << "{", "b", "|", "c", "}", "a", " ", "{", "d", "|", "e", "|", "f", "}" >>
  /\ fnOut.v17 = << << "b", "a", " ", "d" >>, << "b", "a", " ", "e" >>,
                    << "b", "a", " ", "f" >>, << "c", "a", " ", "d" >> >>
  /\ fnOut.v20 = fnOut.v17

\* the report of each terminal outcome
ReportKindAt(position) ==
  CASE position = "nowild"  -> "nowild"
    [] position = "invalid" -> "invalid"
    [] position = "done"    -> "complete"
    [] position = "error"   -> "error"

\* C29: every run terminates: when pipeline.run always returns or throws, the
\* run reaches a terminal outcome (no-wildcards report, invalid-count report,
\* completion report or error report), reports that outcome and no other, and
\* has made at most MAX_BATCH_COUNT generation calls.
C29_RunTerminates ==
  /\ <>(pc \in Terminal)
  /\ [](started <= MAX_BATCH_COUNT)
  /\ [](pc \in Terminal <=> report.kind # "none")
  /\ [](pc \in Terminal => report.kind = ReportKindAt(pc))
  /\ [][(pc \in Terminal) => (vars' = vars)]_vars

\* a Cartesian run asked for 9999 entries of the 256 of four groups of four
\* options has ended with a completion report after MAX_BATCH_COUNT calls
C29_Witness ==
  /\ userInput.text = TplManyCombinations
  /\ userInput.mode = MODE_CARTESIAN
  /\ userInput.count = 9999
  /\ pc = "done"
  /\ report.kind = "complete"
  /\ started = MAX_BATCH_COUNT
  /\ completed = MAX_BATCH_COUNT

\* C30: the progress loop of Safe-Mode v3 always stops: once the render call
\* has settled, by returning or by throwing, ctx.running is set to false; no
\* progress line is emitted while ctx.running is false; the loop then exits;
\* and a progress line after the first is emitted no sooner than
\* LOG_INTERVAL_MS after the line before it.
C30_ProgressLoopStops ==
  /\ (fnOut.pc = "settled") ~> (~fnOut.running /\ fnOut.pc \in { "finished", "caught" })
  /\ [](fnOut.pc \in { "finished", "caught" } => ~fnOut.running)
  /\ [][(fnOut'.lines # fnOut.lines) =>
          /\ fnOut'.running
          /\ fnOut.lines = 0 \/ fnOut.sinceLine >= LOG_INTERVAL_MS]_vars
  /\ (fnOut.pc = "settled") ~> (fnOut.loop = "exited")
  /\ [][(fnOut.loop = "exited") => (fnOut'.loop = "exited" /\ fnOut'.lines = fnOut.lines)]_vars

\* the render call threw after three progress lines, main's catch block has run,
\* and the loop has exited
C30_Witness ==
  /\ fnOut.pc = "caught"
  /\ fnOut.error
  /\ fnOut.lines = 3
  /\ ~fnOut.running
  /\ fnOut.loop = "exited"

=============================================================================
